---------------------------- MODULE Spec2Model ----------------------------
(***************************************************************************)
(* A model of the phishing-detection service: the feature extractors, the  *)
(* ModelLoader prediction pipeline, the LLM analyzer with the combined     *)
(* ML + LLM decision, the /predict and /llm-predict request handlers with  *)
(* their prediction log, and the /analytics handlers that count its rows.  *)
(*                                                                         *)
(* Strings that the code inspects character by character (URLs, page       *)
(* text) are sequences of one-character strings.  Strings that the code    *)
(* only compares or passes on (labels, model types) are TLA+ strings.      *)
(* Python dictionaries are sequences of <<key, value>> pairs in insertion  *)
(* order.  Numbers: counts and lengths are integers, 0.0 / 1.0 flags are   *)
(* 0 / 1, probabilities and confidences are integers in thousandths        *)
(* (1000 = 1.0), ratios are thousandths rounded down.                      *)
(***************************************************************************)
EXTENDS Integers, Sequences, FiniteSets, TLC

VARIABLES
    loader,           \* the global ModelLoader: models, scalers, feature names
    llm,              \* the global LLMPhishingAnalyzer: is self.llm set
    prediction_logs,  \* the prediction_logs table, rows in insertion order
    response,         \* what the last request handler returned or raised
    call              \* the last call or request: its inputs and what it did

vars == <<loader, llm, prediction_logs, response, call>>

\* Python's None, for a value that is a string otherwise
None == "None"

\* An optional value that is not a string: None is [some |-> FALSE]
Nothing == [some |-> FALSE]

Some(x) == [some |-> TRUE, v |-> x]

\* F of the value of x.  x is evaluated once, however often F uses its
\* argument.
With(x, F(_)) == CHOOSE r \in {F(v) : v \in {x}} : TRUE

-----------------------------------------------------------------------------
(* Character strings                                                       *)

UpperCase ==
    <<"A","B","C","D","E","F","G","H","I","J","K","L","M",
      "N","O","P","Q","R","S","T","U","V","W","X","Y","Z">>

LowerCase ==
    <<"a","b","c","d","e","f","g","h","i","j","k","l","m",
      "n","o","p","q","r","s","t","u","v","w","x","y","z">>

Digits == {"0","1","2","3","4","5","6","7","8","9"}

Range(s) == {s[i] : i \in DOMAIN s}

IsUpper(c) == c \in Range(UpperCase)

IsLower(c) == c \in Range(LowerCase)

IsDigit(c) == c \in Digits

LowerChar(c) ==
    IF IsUpper(c) THEN LowerCase[CHOOSE i \in DOMAIN UpperCase : UpperCase[i] = c]
    ELSE c

\* str.lower()
ToLower(s) == [i \in DOMAIN s |-> LowerChar(s[i])]

\* str.count(c) for a one-character c
CountChar(s, c) == Cardinality({i \in DOMAIN s : s[i] = c})

\* sum(pred(c) for c in s)
CountIn(s, chars) == Cardinality({i \in DOMAIN s : s[i] \in chars})

\* sub in s
Contains(s, sub) ==
    \E i \in 0..(Len(s) - Len(sub)) : \A k \in DOMAIN sub : s[i + k] = sub[k]

\* s.endswith(suffix)
EndsWith(s, suffix) ==
    /\ Len(suffix) <= Len(s)
    /\ SubSeq(s, Len(s) - Len(suffix) + 1, Len(s)) = suffix

\* s.startswith(prefix)
StartsWith(s, prefix) ==
    /\ Len(prefix) <= Len(s)
    /\ SubSeq(s, 1, Len(prefix)) = prefix

\* the position of the first character of s, at or after from, that is in
\* chars; Len(s) + 1 when there is none
FirstOf(s, chars, from) ==
    LET hits == {i \in from..Len(s) : s[i] \in chars}
    IN  IF hits = {} THEN Len(s) + 1
        ELSE CHOOSE i \in hits : \A j \in hits : i <= j

RECURSIVE Split(_, _)
\* s.split(c): the pieces between the occurrences of c, empty ones included
Split(s, c) ==
    With(FirstOf(s, {c}, 1), LAMBDA i :
        IF i > Len(s) THEN <<s>>
        ELSE With(SubSeq(s, i + 1, Len(s)), LAMBDA rest :
                 <<SubSeq(s, 1, i - 1)>> \o Split(rest, c)))

\* sum(1 for keyword in keywords if keyword in s)
KeywordCount(keywords, s) ==
    Cardinality({k \in DOMAIN keywords : Contains(s, keywords[k])})

-----------------------------------------------------------------------------
(* Python dictionaries, insertion ordered                                  *)

Keys(d) == [i \in DOMAIN d |-> d[i][1]]

\* list(d.values())
Values(d) == [i \in DOMAIN d |-> d[i][2]]

HasKey(d, k) == \E i \in DOMAIN d : d[i][1] = k

\* d.get(k, default)
Get(d, k, default) ==
    IF HasKey(d, k) THEN d[CHOOSE i \in DOMAIN d : d[i][1] = k][2] ELSE default

\* d[k] = v: an existing key keeps its position, a new key goes last
Put(d, k, v) ==
    IF HasKey(d, k)
    THEN [i \in DOMAIN d |-> IF d[i][1] = k THEN <<k, v>> ELSE d[i]]
    ELSE Append(d, <<k, v>>)

RECURSIVE UpdateFrom(_, _, _)
\* d after d[k] = v for the items (k, v) of e from the i-th on
UpdateFrom(d, e, i) ==
    IF i > Len(e) THEN d
    ELSE With(Put(d, e[i][1], e[i][2]), LAMBDA d2 : UpdateFrom(d2, e, i + 1))

\* d.update(e)
Update(d, e) ==
    With(d, LAMBDA dv : With(e, LAMBDA ev : UpdateFrom(dv, ev, 1)))

-----------------------------------------------------------------------------
(* urllib.parse.urlparse, as the extractors use it                         *)

scheme_chars == Range(UpperCase) \cup Range(LowerCase) \cup Digits \cup {"+", "-", "."}

\* The scheme of url, if it has one: url[:i] for the first ':' at i > 0, when
\* url starts with a letter and url[:i] holds scheme characters only.
HasScheme(url) ==
    LET i == FirstOf(url, {":"}, 1)
    IN  /\ i <= Len(url)
        /\ i > 1
        /\ IsUpper(url[1]) \/ IsLower(url[1])
        /\ \A k \in 1..(i - 1) : url[k] \in scheme_chars

\* urlparse(url): [raises |-> TRUE] for ValueError("Invalid IPv6 URL"), a
\* netloc with one square bracket and not the other; otherwise the parts.
\* (';' parameters and '#' fragments are split off the path as urlparse does;
\* the extractors never read them.)
\* url[:i].lower() and url[i+1:] for a url with a scheme, '' and url without
SplitScheme(url) ==
    With(FirstOf(url, {":"}, 1), LAMBDA i :
        IF HasScheme(url)
        THEN [scheme |-> ToLower(SubSeq(url, 1, i - 1)),
              rest |-> SubSeq(url, i + 1, Len(url))]
        ELSE [scheme |-> <<>>, rest |-> url])

\* the netloc after a leading '//', up to the first of '/', '?', '#'
SplitNetloc(rest) ==
    With(FirstOf(rest, {"/", "?", "#"}, 3), LAMBDA delim :
        IF StartsWith(rest, <<"/", "/">>)
        THEN [netloc |-> SubSeq(rest, 3, delim - 1),
              rest |-> SubSeq(rest, delim, Len(rest))]
        ELSE [netloc |-> <<>>, rest |-> rest])

\* the path and the query of what follows the netloc, the fragment dropped
SplitQuery(rest) ==
    With(SubSeq(rest, 1, FirstOf(rest, {"#"}, 1) - 1), LAMBDA r :
        With(FirstOf(r, {"?"}, 1), LAMBDA q :
            [path |-> SubSeq(r, 1, q - 1), query |-> SubSeq(r, q + 1, Len(r))]))

urlparse(url) ==
    With(SplitScheme(url), LAMBDA s :
    With(SplitNetloc(s.rest), LAMBDA n :
    With(SplitQuery(n.rest), LAMBDA p :
        IF ("[" \in Range(n.netloc)) # ("]" \in Range(n.netloc))
        THEN [raises |-> TRUE]
        ELSE [raises |-> FALSE, scheme |-> s.scheme, netloc |-> n.netloc,
              path |-> p.path, query |-> p.query])))

-----------------------------------------------------------------------------
(* URLFeatureExtractor                                                     *)

suspicious_keywords ==
    << <<"s","e","c","u","r","e">>,
       <<"a","c","c","o","u","n","t">>,
       <<"u","p","d","a","t","e">>,
       <<"v","e","r","i","f","y">>,
       <<"c","o","n","f","i","r","m">>,
       <<"l","o","g","i","n">>,
       <<"b","a","n","k">>,
       <<"p","a","y","p","a","l">>,
       <<"a","m","a","z","o","n">>,
       <<"a","p","p","l","e">>,
       <<"m","i","c","r","o","s","o","f","t">>,
       <<"g","o","o","g","l","e">>,
       <<"f","a","c","e","b","o","o","k">>,
       <<"t","w","i","t","t","e","r">>,
       <<"i","n","s","t","a","g","r","a","m">>,
       <<"l","i","n","k","e","d","i","n">>,
       <<"n","e","t","f","l","i","x">>,
       <<"s","u","s","p","i","c","i","o","u","s">>,
       <<"p","h","i","s","h","i","n","g">>,
       <<"s","c","a","m">>,
       <<"f","r","a","u","d">>,
       <<"f","a","k","e">> >>

suspicious_tlds ==
    << <<".","t","k">>,
       <<".","m","l">>,
       <<".","g","a">>,
       <<".","c","f">>,
       <<".","c","l","i","c","k">>,
       <<".","d","o","w","n","l","o","a","d">>,
       <<".","r","e","v","i","e","w">> >>

shorteners ==
    << <<"b","i","t",".","l","y">>,
       <<"t","i","n","y","u","r","l">>,
       <<"g","o","o",".","g","l">>,
       <<"t",".","c","o">>,
       <<"o","w",".","l","y">>,
       <<"s","h","o","r","t",".","l","i","n","k">> >>

special_chars ==
    {"!", "@", "#", "$", "%", "^", "&", "*", "(", ")", "+", "=", "[", "]",
     "{", "}", "|", ";", ":", ",", ".", "<", ">", "?"}

extract_basic_features(url) ==
    << <<"url_length", Len(url)>>,
       <<"num_dots", CountChar(url, ".")>>,
       <<"num_hyphens", CountChar(url, "-")>>,
       <<"num_underscores", CountChar(url, "_")>>,
       <<"num_slashes", CountChar(url, "/")>>,
       <<"num_digits", CountIn(url, Digits)>>,
       <<"num_special_chars", CountIn(url, special_chars)>> >>

\* re.match(r'^\d+\.\d+\.\d+\.\d+$', domain)
IsDottedQuad(domain) ==
    With(Split(domain, "."), LAMBDA parts :
        /\ Len(parts) = 4
        /\ \A i \in 1..4 :
               parts[i] # <<>> /\ \A k \in DOMAIN parts[i] : IsDigit(parts[i][k]))

\* domain.split('.')[-1] if '.' in domain else ''
TldOf(domain) ==
    IF "." \in Range(domain)
    THEN With(Split(domain, "."), LAMBDA parts : parts[Len(parts)])
    ELSE <<>>

domain_defaults ==
    << <<"domain_length", 0>>, <<"num_subdomains", 0>>, <<"has_ip", 0>>,
       <<"has_https", 0>>, <<"tld_length", 0>>, <<"suspicious_tld", 0>> >>

extract_domain_features(url) ==
    With(urlparse(url), LAMBDA parsed :
        IF parsed.raises THEN domain_defaults
        ELSE With(ToLower(parsed.netloc), LAMBDA domain :
             With(TldOf(domain), LAMBDA tld :
                << <<"domain_length", Len(domain)>>,
                   <<"num_subdomains", Len(Split(domain, ".")) - 2>>,
                   <<"has_ip", IF IsDottedQuad(domain) THEN 1 ELSE 0>>,
                   <<"has_https",
                     IF parsed.scheme = <<"h","t","t","p","s">> THEN 1 ELSE 0>>,
                   <<"tld_length", Len(tld)>>,
                   <<"suspicious_tld",
                     IF \E t \in DOMAIN suspicious_tlds : EndsWith(tld, suspicious_tlds[t])
                     THEN 1 ELSE 0>> >>)))

path_defaults ==
    << <<"path_length", 0>>, <<"num_directories", 0>>,
       <<"has_file_extension", 0>>, <<"suspicious_path_keywords", 0>> >>

extract_path_features(url) ==
    With(urlparse(url), LAMBDA parsed :
        IF parsed.raises THEN path_defaults
        ELSE With(parsed.path, LAMBDA path :
             With(Split(path, "/"), LAMBDA dirs :
             With(ToLower(path), LAMBDA path_lower :
                << <<"path_length", Len(path)>>,
                   <<"num_directories",
                     Cardinality({i \in DOMAIN dirs : dirs[i] # <<>>})>>,
                   <<"has_file_extension",
                     IF "." \in Range(dirs[Len(dirs)]) THEN 1 ELSE 0>>,
                   <<"suspicious_path_keywords",
                     KeywordCount(suspicious_keywords, path_lower)>> >>))))

\* query_defaults without num_params
query_defaults_Partial ==
    << <<"query_length", 0>>, <<"suspicious_query_keywords", 0>> >>

query_defaults ==
    << <<"query_length", 0>>, <<"num_params", 0>>,
       <<"suspicious_query_keywords", 0>> >>

extract_query_features(url) ==
    With(urlparse(url), LAMBDA parsed :
        IF parsed.raises THEN query_defaults
        ELSE With(parsed.query, LAMBDA query :
             With(ToLower(query), LAMBDA query_lower :
                << <<"query_length", Len(query)>>,
                   <<"num_params",
                     IF query # <<>> THEN Len(Split(query, "&")) ELSE 0>>,
                   <<"suspicious_query_keywords",
                     KeywordCount(suspicious_keywords, query_lower)>> >>)))

\* re.search(r'(.)\1{2,}', url): some character three times in a row
HasRepeatedChars(url) ==
    \E i \in 1..(Len(url) - 2) : url[i] = url[i + 1] /\ url[i] = url[i + 2]

extract_suspicious_features(url) ==
    With(ToLower(url), LAMBDA url_lower :
       << <<"suspicious_keywords", KeywordCount(suspicious_keywords, url_lower)>>,
          <<"is_shortened",
            IF \E s \in DOMAIN shorteners : Contains(url_lower, shorteners[s])
            THEN 1 ELSE 0>>,
          <<"has_repeated_chars", IF HasRepeatedChars(url) THEN 1 ELSE 0>>,
          <<"has_mixed_case",
            IF (\E i \in DOMAIN url : IsLower(url[i]))
               /\ (\E i \in DOMAIN url : IsUpper(url[i]))
            THEN 1 ELSE 0>> >>)

\* URLFeatureExtractor.extract_features
url_extract_features(url) ==
    Update(Update(Update(Update(Update(<<>>,
        extract_basic_features(url)),
        extract_domain_features(url)),
        extract_path_features(url)),
        extract_query_features(url)),
        extract_suspicious_features(url))

-----------------------------------------------------------------------------
(* WHOISFeatureExtractor.  The lookup is an outside service: w is what it  *)
(* did: [raises, has_creation_date, age_days, registrar, country].          *)

whois_defaults ==
    << <<"domain_age_days", 0>>, <<"has_registrar", 0>>, <<"has_country", 0>> >>

whois_extract_features(url, w) ==
    IF urlparse(url).raises \/ w.raises THEN whois_defaults
    ELSE << <<"domain_age_days", IF w.has_creation_date THEN w.age_days ELSE 0>>,
            <<"has_registrar", IF w.registrar THEN 1 ELSE 0>>,
            <<"has_country", IF w.country THEN 1 ELSE 0>> >>

-----------------------------------------------------------------------------
(* NLPFeatureExtractor                                                     *)

\* stopwords.words('english'), the words of it that the modelled texts use
stop_words ==
    { <<"t","h","e">>, <<"i","s">>, <<"a">>, <<"t","o">>, <<"y","o","u","r">>,
      <<"a","n","d">>, <<"h","e","r","e">> }

text_suspicious_keywords ==
    << <<"u","r","g","e","n","t">>,
       <<"i","m","m","e","d","i","a","t","e">>,
       <<"v","e","r","i","f","y">>,
       <<"c","o","n","f","i","r","m">>,
       <<"a","c","c","o","u","n","t">>,
       <<"s","e","c","u","r","i","t","y">>,
       <<"s","u","s","p","e","n","d","e","d">>,
       <<"l","o","c","k","e","d">>,
       <<"e","x","p","i","r","e","d">>,
       <<"u","p","d","a","t","e">>,
       <<"c","l","i","c","k">>,
       <<"h","e","r","e">>,
       <<"p","h","i","s","h","i","n","g">>,
       <<"s","c","a","m">>,
       <<"f","r","a","u","d">>,
       <<"f","a","k","e">>,
       <<"s","u","s","p","i","c","i","o","u","s">> >>

\* word_tokenize(text): the words between blanks
word_tokenize(text) ==
    With(Split(text, " "), LAMBDA pieces : SelectSeq(pieces, LAMBDA p : p # <<>>))

RECURSIVE SumLen(_)
\* sum(len(word) for word in words)
SumLen(words) ==
    IF words = <<>> THEN 0
    ELSE With(Tail(words), LAMBDA rest : Len(Head(words)) + SumLen(rest))

extract_basic_text_features(text) ==
    With(ToLower(text), LAMBDA text_lower :
    With(word_tokenize(text_lower), LAMBDA words :
    With(Len(words), LAMBDA n :
    With(Cardinality({i \in DOMAIN words : words[i] \in stop_words}), LAMBDA stops :
       << <<"text_length", Len(text)>>,
          <<"word_count", n>>,
          <<"avg_word_length", IF n > 0 THEN (SumLen(words) * 1000) \div n ELSE 0>>,
          <<"stop_word_ratio", IF n > 0 THEN (stops * 1000) \div n ELSE 0>>,
          <<"special_char_ratio",
            IF text # <<>> THEN (CountIn(text, special_chars) * 1000) \div Len(text)
            ELSE 0>>,
          <<"suspicious_keywords",
            KeywordCount(text_suspicious_keywords, text_lower)>> >>))))

\* f'tfidf_{i}'
tfidf_key == <<"tfidf_0", "tfidf_1", "tfidf_2", "tfidf_3">>

\* How many of the vectorizer's features are kept: np.argsort(...)[-50:]
TopTfidf == 50

RECURSIVE SortAsc(_)
\* the values of a sequence in ascending order (the values np.argsort picks)
SortAsc(s) ==
    IF s = <<>> THEN <<>>
    ELSE With(CHOOSE i \in DOMAIN s : \A j \in DOMAIN s : s[i] <= s[j], LAMBDA m :
         With([k \in 1..(Len(s) - 1) |-> IF k < m THEN s[k] ELSE s[k + 1]], LAMBDA rest :
             <<s[m]>> \o SortAsc(rest)))

\* _extract_tfidf_features: t is what the vectorizer's transform did for the
\* text, [raises, weights]; a failure leaves no tf-idf feature at all.
extract_tfidf_features(t) ==
    IF t.raises THEN <<>>
    ELSE With(SortAsc(t.weights), LAMBDA sorted :
         With(IF Len(sorted) > TopTfidf THEN Len(sorted) - TopTfidf ELSE 0, LAMBDA first :
             [i \in 1..(Len(sorted) - first) |-> <<tfidf_key[i], sorted[first + i]>>]))

\* NLPFeatureExtractor.extract_features.  has_tfidf: a vectorizer is loaded
\* in this extractor.  e.tokenize_raises: word_tokenize raises (its tokenizer
\* data is missing), which nothing in the extractor catches.  The BERT
\* tokenizer and model are never loaded by the service, so that branch is
\* never taken.
nlp_extract_features(text, has_tfidf, e) ==
    IF e.tokenize_raises THEN [raises |-> TRUE]
    ELSE [raises |-> FALSE,
          features |->
              Update(Update(<<>>, extract_basic_text_features(text)),
                     IF has_tfidf THEN extract_tfidf_features(e.tfidf) ELSE <<>>)]

-----------------------------------------------------------------------------
(* HybridFeatureExtractor                                                  *)

\* text[:5000]
MaxPageText == 5000

\* NLPFeatureExtractor.extract_text_from_url: page is what fetching and
\* cleaning the page did, [raises, text]; a failure gives the empty string.
extract_text_from_url(page) ==
    IF page.raises THEN <<>>
    ELSE SubSeq(page.text, 1,
                IF Len(page.text) < MaxPageText THEN Len(page.text) ELSE MaxPageText)

\* hybrid_extract_features fetching the page for an empty text as well
hybrid_extract_features_FetchIfEmpty(url, text, e) ==
    With(Update(Update(<<>>, url_extract_features(url)),
                whois_extract_features(url, e.whois)), LAMBDA base :
    With(IF text.some /\ text.v # <<>> THEN text.v ELSE extract_text_from_url(e.page),
         LAMBDA used :
        IF used = <<>>
        THEN [raises |-> FALSE, features |-> base, fetched |-> ~text.some, text |-> used]
        ELSE With(nlp_extract_features(used, FALSE, e), LAMBDA nlp :
            IF nlp.raises
            THEN [raises |-> TRUE, fetched |-> ~text.some, text |-> used]
            ELSE [raises |-> FALSE, features |-> Update(base, nlp.features),
                  fetched |-> ~text.some, text |-> used])))

\* HybridFeatureExtractor.extract_features(url, text); text is Nothing for
\* None.  The hybrid extractor's own NLP extractor never has a vectorizer
\* loaded.  e: [whois, page, tokenize_raises, tfidf].
hybrid_extract_features(url, text, e) ==
    With(Update(Update(<<>>, url_extract_features(url)),
                whois_extract_features(url, e.whois)), LAMBDA base :
    With(IF text.some THEN text.v ELSE extract_text_from_url(e.page), LAMBDA used :
        IF used = <<>>
        THEN [raises |-> FALSE, features |-> base, fetched |-> ~text.some, text |-> used]
        ELSE With(nlp_extract_features(used, FALSE, e), LAMBDA nlp :
            IF nlp.raises
            THEN [raises |-> TRUE, fetched |-> ~text.some, text |-> used]
            ELSE [raises |-> FALSE, features |-> Update(base, nlp.features),
                  fetched |-> ~text.some, text |-> used])))

-----------------------------------------------------------------------------
(* ModelLoader.  loader is the state _load_models leaves:                  *)
(*   url_model, text_model, hybrid_model : is the model loaded            *)
(*   url_scaler, ...         : Nothing, or Some([mean, scale])             *)
(*   url_feature_names, ...  : Nothing, or Some(list of names)             *)
(*   tfidf                   : nlp_extractor has a vectorizer loaded       *)
(* The classifiers are pickled objects: m is what one did on a call,       *)
(*   m.raise_at : "none", or the step that raised ("scale", "predict",     *)
(*                "predict_proba", "int" for int(prediction))              *)
(*   m.cls      : model.predict(...)[0]                                    *)
(*   m.proba    : model.predict_proba(...)[0], in thousandths              *)

\* np.max(probability)
Max(s) == CHOOSE x \in Range(s) : \A y \in Range(s) : y <= x

\* order_features without the schema: the values in extraction order
order_features_Unordered(raw, names) == Values(raw)

\* [raw.get(name, 0.0) for name in names] if names else list(raw.values())
order_features(raw, names) ==
    IF names.some /\ names.v # <<>>
    THEN [i \in DOMAIN names.v |-> Get(raw, names.v[i], 0)]
    ELSE Values(raw)

\* which feature each position of order_features(raw, names) holds
order_layout(raw, names) ==
    IF names.some /\ names.v # <<>> THEN names.v ELSE Keys(raw)

\* scaler.transform: (x - mean) / scale, in thousandths
transform(scaler, vector) ==
    [i \in DOMAIN vector |-> ((vector[i] - scaler.mean) * 1000) \div scaler.scale]

\* label_of taking every class but 0 for phishing
label_of_NonZero(cls) == IF cls # 0 THEN "Phishing" ELSE "Legitimate"

\* "Phishing" if int(prediction) == 1 else "Legitimate"
label_of(cls) == IF cls = 1 THEN "Phishing" ELSE "Legitimate"

\* What a predict_* call gives back, and what it did on the way: the steps
\* it ran, the features it extracted (raw), the list it ordered them into,
\* the vector it built from that, and whether the vector reached the
\* classifier.
Outcome(label, confidence, steps, raw, ordered, vector, layout, handed) ==
    [label |-> label, confidence |-> confidence, steps |-> steps, raw |-> raw,
     ordered |-> ordered, vector |-> vector, layout |-> layout, handed |-> handed]

model_not_available ==
    Outcome("Model not available", 0, <<>>, <<>>, <<>>, <<>>, <<>>, FALSE)

\* Failed keeping a confidence
Failed_Confident(steps, raw, ordered, vector, layout, handed) ==
    Outcome("Error", 500, steps, raw, ordered, vector, layout, handed)

Failed(steps, raw, ordered, vector, layout, handed) ==
    Outcome("Error", 0, steps, raw, ordered, vector, layout, handed)

\* The body of the try block of predict_url, predict_text and predict_hybrid,
\* which differ in the extractor and in the artifacts they use.
run_pipeline(extracted, names, scaler, m) ==
    IF extracted.raises THEN Failed(<<"extract">>, <<>>, <<>>, <<>>, <<>>, FALSE)
    ELSE
    With(extracted.features, LAMBDA raw :
    With(order_features(raw, names), LAMBDA ordered :
    With(order_layout(raw, names), LAMBDA layout :
    With(IF scaler.some THEN transform(scaler.v, ordered) ELSE ordered, LAMBDA vector :
    LET s1      == <<"extract", "order">>
        s2      == IF scaler.some THEN Append(s1, "scale") ELSE s1
        s3      == Append(s2, "predict")
        s4      == Append(s3, "predict_proba")
    IN  IF scaler.some /\ m.raise_at = "scale"
        THEN Failed(s2, raw, ordered, <<>>, layout, FALSE)
        ELSE IF m.raise_at = "predict"
        THEN Failed(s3, raw, ordered, vector, layout, TRUE)
        ELSE IF m.raise_at = "predict_proba"
        THEN Failed(s4, raw, ordered, vector, layout, TRUE)
        ELSE IF m.raise_at = "int"
        THEN Failed(s4, raw, ordered, vector, layout, TRUE)
        ELSE Outcome(label_of(m.cls), Max(m.proba), Append(s4, "map"),
                     raw, ordered, vector, layout, TRUE)))))

predict_url(ld, url, m) ==
    IF ~ld.url_model THEN model_not_available
    ELSE With([raises |-> FALSE, features |-> url_extract_features(url)],
              LAMBDA extracted :
                  run_pipeline(extracted, ld.url_feature_names, ld.url_scaler, m))

predict_text(ld, text, e, m) ==
    IF ~ld.text_model THEN model_not_available
    ELSE With(nlp_extract_features(text, ld.tfidf, e),
              LAMBDA extracted :
                  run_pipeline(extracted, ld.text_feature_names, ld.text_scaler, m))

predict_hybrid(ld, url, text, e, m) ==
    IF ~ld.hybrid_model THEN model_not_available
    ELSE With(hybrid_extract_features(url, text, e),
              LAMBDA extracted :
                  run_pipeline(extracted, ld.hybrid_feature_names, ld.hybrid_scaler, m))

-----------------------------------------------------------------------------
(* Values the LLM path carries.  A prediction is a string, or None (JSON   *)
(* null).  A confidence is a number of thousandths, Num(n), or NotNum: a   *)
(* JSON string or null where the number should be.                         *)

Num(n) == [num |-> TRUE, n |-> n]

NotNum == [num |-> FALSE]

\* str.upper() and str.lower() on the labels and predictions that occur
CaseTable ==
    { <<"Phishing", "PHISHING", "phishing">>,
      <<"Legitimate", "LEGITIMATE", "legitimate">>,
      <<"Error", "ERROR", "error">>,
      <<"Model not available", "MODEL NOT AVAILABLE", "model not available">>,
      <<"PHISHING", "PHISHING", "phishing">>,
      <<"LEGITIMATE", "LEGITIMATE", "legitimate">>,
      <<"UNKNOWN", "UNKNOWN", "unknown">>,
      <<"phishing", "PHISHING", "phishing">>,
      <<"Suspicious", "SUSPICIOUS", "suspicious">> }

Upper(s) == (CHOOSE t \in CaseTable : t[1] = s)[2]

Lower(s) == (CHOOSE t \in CaseTable : t[1] = s)[3]

-----------------------------------------------------------------------------
(* PhishingAnalysisParser.  The LLM's answer is a text; t says of it what  *)
(* the parser looks at:                                                    *)
(*   t.braces   : "{" in text and "}" in text                              *)
(*   t.json     : json.loads of text[first "{" : last "}"], Nothing when   *)
(*                it raises, else Some(the object): [prediction,           *)
(*                confidence, explanation, risk_factors, recommendations], *)
(*                each key Nothing when absent                             *)
(*   t.phishing_word, t.legitimate_word : a word of the first, of the      *)
(*                second list of _fallback_parse is in the text            *)
(*   t.percents : re.findall(r'(\d+)%', text)                              *)

\* confidence = float(percentages[0]) / 100.0, in thousandths
fallback_parse(t) ==
    [prediction |-> Some(IF t.phishing_word THEN "PHISHING"
                         ELSE IF t.legitimate_word THEN "LEGITIMATE"
                         ELSE "UNKNOWN"),
     confidence |-> Some(IF t.percents # <<>> THEN Num(t.percents[1] * 10)
                         ELSE Num(500)),
     explanation |-> Some("text[:500]"),
     risk_factors |-> Some(<<>>),
     recommendations |-> Some(<<>>)]

parse(t) ==
    IF t.braces /\ t.json.some THEN t.json.v ELSE fallback_parse(t)

-----------------------------------------------------------------------------
(* LLMPhishingAnalyzer.  has_llm: self.llm is set.  o is what the chain    *)
(* did on a call: [raises, text].                                          *)

LLMAnalysisResult(prediction, confidence, explanation, risk_factors, recommendations) ==
    [prediction |-> prediction, confidence |-> confidence,
     explanation |-> explanation, risk_factors |-> risk_factors,
     recommendations |-> recommendations]

fallback_result ==
    LLMAnalysisResult("UNKNOWN", Num(0), "LLM analysis unavailable", <<>>,
                      <<"Use traditional ML analysis", "Check LLM service status">>)

\* result.get("prediction", "UNKNOWN")
get_prediction(result) ==
    IF result.prediction.some THEN result.prediction.v ELSE "UNKNOWN"

\* result.get("confidence", 0.5)
get_confidence(result) ==
    IF result.confidence.some THEN result.confidence.v ELSE Num(500)

\* LLMAnalysisResult(prediction=result.get("prediction", "UNKNOWN"), ...)
result_of(prediction, result) ==
    LLMAnalysisResult(prediction, get_confidence(result),
        IF result.explanation.some THEN result.explanation.v
        ELSE "No explanation available",
        IF result.risk_factors.some THEN result.risk_factors.v ELSE <<>>,
        IF result.recommendations.some THEN result.recommendations.v ELSE <<>>)

\* The threshold of the phishing bias of analyze_url
BiasThreshold == 900

\* analyze_url without the phishing bias
analyze_url_Unbiased(has_llm, o) ==
    IF ~has_llm THEN fallback_result
    ELSE IF o.raises THEN fallback_result
    ELSE LET result == parse(o.text)
         IN  result_of(get_prediction(result), result)

\* analyze_url.  Comparing a confidence that is no number with 0.9 raises a
\* TypeError, which the method's except turns into the fallback result.
analyze_url(has_llm, o) ==
    IF ~has_llm THEN fallback_result
    ELSE IF o.raises THEN fallback_result
    ELSE LET result == parse(o.text)
             is_legit == result.prediction.some /\ result.prediction.v = "LEGITIMATE"
         IN  IF is_legit /\ ~get_confidence(result).num THEN fallback_result
             ELSE IF is_legit /\ get_confidence(result).n < BiasThreshold
             THEN result_of("PHISHING", result)
             ELSE result_of(get_prediction(result), result)

\* analyze_text and analyze_hybrid share everything but the prompt
analyze_text(has_llm, o) ==
    IF ~has_llm THEN fallback_result
    ELSE IF o.raises THEN fallback_result
    ELSE LET result == parse(o.text)
         IN  result_of(get_prediction(result), result)

analyze_hybrid(has_llm, o) ==
    IF ~has_llm THEN fallback_result
    ELSE IF o.raises THEN fallback_result
    ELSE LET result == parse(o.text)
         IN  result_of(get_prediction(result), result)

\* is_available: the service answered the probe with status 200
is_available(has_llm, probe_ok) == has_llm /\ probe_ok

-----------------------------------------------------------------------------
(* final_url_analysis                                                      *)

\* The floors of the combined confidence
BothPhishingFloor == 900

OnePhishingFloor == 700

Max2(a, b) == IF b > a THEN b ELSE a

\* The combined step raises when llm_result.prediction is no string (it has
\* no upper()) or llm_result.confidence is no number (it cannot be added).
combine_raises(llm_result) ==
    llm_result.prediction = None \/ ~llm_result.confidence.num

\* Step 3 of final_url_analysis, for an ML result and an LLM result with
\* which it does not raise.  Confidences are even numbers of thousandths in
\* every modelled input, so halving their sum is exact.
combine(ml, llm_result) ==
    LET ml_is_phishing  == Lower(ml.label) = "phishing"
        llm_is_phishing == Upper(llm_result.prediction) = "PHISHING"
        avg == (ml.confidence + llm_result.confidence.n) \div 2
    IN  IF ml_is_phishing /\ llm_is_phishing
        THEN [prediction |-> "PHISHING", confidence |-> Num(Max2(BothPhishingFloor, avg))]
        ELSE IF ml_is_phishing \/ llm_is_phishing
        THEN [prediction |-> "PHISHING", confidence |-> Num(Max2(OnePhishingFloor, avg))]
        ELSE [prediction |-> "LEGITIMATE", confidence |-> Num(avg)]

\* What a call of analyze_url did, as final_url_analysis sees it: it gave a
\* result back, or an exception left it
Returned(result) == [raises |-> FALSE, v |-> result]

Raised == [raises |-> TRUE]

\* final_url_analysis whose fallback answers with the default at once
final_url_analysis_Default(ml, first, second) ==
    IF ~combine_raises(first)
    THEN LET r == combine(ml, first)
         IN  [prediction |-> r.prediction, confidence |-> r.confidence,
              path |-> "combined"]
    ELSE [prediction |-> "LEGITIMATE", confidence |-> Num(500), path |-> "default"]

\* final_url_analysis(url): ml is what model_loader.predict_url(url) returned,
\* first what the call of llm_analyzer.analyze_url(url) in the try returned,
\* second what its call in the except did, Returned(result) or Raised.
\* predict_url catches everything it raises, and the first analyze_url call
\* does, so the try is left only by the combining step.
final_url_analysis(ml, first, second) ==
    IF ~combine_raises(first)
    THEN LET r == combine(ml, first)
         IN  [prediction |-> r.prediction, confidence |-> r.confidence,
              path |-> "combined"]
    ELSE IF ~second.raises
    THEN [prediction |-> second.v.prediction, confidence |-> second.v.confidence,
          path |-> "llm_only"]
    ELSE [prediction |-> "LEGITIMATE", confidence |-> Num(500), path |-> "default"]

-----------------------------------------------------------------------------
(* The prediction_logs table and the two logging functions.  db is what    *)
(* the session did: "ok"; "commit_raises", the row could not be built,     *)
(* added or committed, and is rolled back; "rollback_raises", the rollback *)
(* in the except raised too, which leaves the logging function.            *)

PredictionLog(url, text, prediction, confidence, model_type) ==
    [url |-> url, text |-> text, prediction |-> prediction,
     confidence |-> confidence, model_type |-> model_type]

\* routers/predict.py, log_prediction
log_prediction(logs, url, text, prediction, confidence, model_type, db) ==
    IF db = "ok"
    THEN [logs |-> Append(logs, PredictionLog(url, text, prediction, Num(confidence), model_type)),
          raises |-> FALSE]
    ELSE [logs |-> logs, raises |-> db = "rollback_raises"]

\* f"llm_{model_type}"
llm_model_type(model_type) ==
    CASE model_type = "url" -> "llm_url"
      [] model_type = "text" -> "llm_text"
      [] model_type = "hybrid" -> "llm_hybrid"

\* routers/llm_predict.py, log_llm_prediction
log_llm_prediction(logs, url, text, result, model_type, db) ==
    IF db = "ok"
    THEN [logs |-> Append(logs, PredictionLog(url, text, result.prediction,
                                              result.confidence,
                                              llm_model_type(model_type))),
          raises |-> FALSE]
    ELSE [logs |-> logs, raises |-> db = "rollback_raises"]

-----------------------------------------------------------------------------
(* The /predict handlers.  Each gives [logs, response]: the table after    *)
(* the request and what the client gets.                                   *)

PredictionResponse(url, text, prediction, confidence, model_type) ==
    [status |-> 200, url |-> url, text |-> text, prediction |-> prediction,
     confidence |-> Num(confidence), model_type |-> model_type]

\* raise HTTPException(status_code=500, detail=...)
HTTPException(status, detail) == [status |-> status, detail |-> detail]

\* predict_url_endpoint; ml is what predict_url(request.url) returned
predict_url_endpoint(logs, url, ml, db) ==
    LET logged == log_prediction(logs, Some(url), Nothing, ml.label, ml.confidence, "url", db)
    IN  IF logged.raises
        THEN [logs |-> logged.logs, response |-> HTTPException(500, "Internal server error")]
        ELSE [logs |-> logged.logs,
              response |-> PredictionResponse(Some(url), Nothing, ml.label,
                                              ml.confidence, "url")]

\* predict_text_endpoint answering as the URL endpoint
predict_text_endpoint_AsUrl(logs, text, ml, db) ==
    predict_url_endpoint(logs, text, ml, db)

\* predict_text_endpoint; ml is what predict_text(request.text) returned
predict_text_endpoint(logs, text, ml, db) ==
    LET logged == log_prediction(logs, Nothing, Some(text), ml.label, ml.confidence, "text", db)
    IN  IF logged.raises
        THEN [logs |-> logged.logs, response |-> HTTPException(500, "Internal server error")]
        ELSE [logs |-> logged.logs,
              response |-> PredictionResponse(Nothing, Some(text), ml.label,
                                              ml.confidence, "text")]

\* predict_hybrid_endpoint; text is Nothing when the request has none; ml is
\* what predict_hybrid(request.url, request.text) returned.  build_raises:
\* the response model rejects text=None (its field is declared str), which
\* depends on the validation library's version.
predict_hybrid_endpoint(logs, url, text, ml, db, build_raises) ==
    LET logged == log_prediction(logs, Some(url), text, ml.label, ml.confidence, "hybrid", db)
    IN  IF logged.raises \/ (~text.some /\ build_raises)
        THEN [logs |-> logged.logs, response |-> HTTPException(500, "Internal server error")]
        ELSE [logs |-> logged.logs,
              response |-> PredictionResponse(Some(url), text, ml.label,
                                              ml.confidence, "hybrid")]

-----------------------------------------------------------------------------
(* The /llm-predict handlers                                               *)

\* llm_analyzer.model_name
model_name == "llama2"

LLMPredictionResponse(url, text, result, model_type, llm_model) ==
    [status |-> 200, url |-> url, text |-> text,
     prediction |-> result.prediction, confidence |-> result.confidence,
     explanation |-> result.explanation, risk_factors |-> result.risk_factors,
     recommendations |-> result.recommendations,
     model_type |-> model_type, llm_model |-> llm_model]

\* ml_only_result with the ML label as it is
ml_only_result_AsLabelled(ml) ==
    LLMAnalysisResult(ml.label, Num(ml.confidence),
                      "ML-only analysis (LLM unavailable)", <<>>, <<>>)

\* The ML-only result of the three handlers
ml_only_result(ml) ==
    LLMAnalysisResult(Upper(ml.label), Num(ml.confidence),
                      "ML-only analysis (LLM unavailable)", <<>>, <<>>)

\* What the three handlers do once they have their result: log it, format
\* the confidence for the log line (f"{confidence:.4f}", which raises for a
\* confidence that is no number), build the response (whose prediction must
\* be a string).  available_again: the second is_available() call.
finish_llm(logs, url, text, result, model_type, db, available_again) ==
    LET logged == log_llm_prediction(logs, url, text, result, model_type, db)
    IN  IF logged.raises \/ ~result.confidence.num \/ result.prediction = None
        THEN [logs |-> logged.logs,
              response |-> HTTPException(500, "Internal server error: ...")]
        ELSE [logs |-> logged.logs,
              response |-> LLMPredictionResponse(url, text, result, model_type,
                               IF available_again THEN model_name ELSE "ml-only")]

\* predict_url_llm; available: the first is_available() call; final: what
\* final_url_analysis(request.url) returned; ml: what predict_url returned
predict_url_llm(logs, url, available, final, ml, db, available_again) ==
    LET result == IF available
                  THEN LLMAnalysisResult(final.prediction, final.confidence,
                           "Hybrid ML+LLM analysis (ML + llama2)", <<>>, <<>>)
                  ELSE ml_only_result(ml)
    IN  finish_llm(logs, Some(url), Nothing, result, "url", db, available_again)

\* predict_text_llm; analysis: what llm_analyzer.analyze_text returned
predict_text_llm(logs, text, available, analysis, ml, db, available_again) ==
    LET result == IF available THEN analysis ELSE ml_only_result(ml)
    IN  finish_llm(logs, Nothing, Some(text), result, "text", db, available_again)

\* predict_hybrid_llm; analysis: what llm_analyzer.analyze_hybrid returned
predict_hybrid_llm(logs, url, text, available, analysis, ml, db, available_again) ==
    LET result == IF available THEN analysis ELSE ml_only_result(ml)
    IN  finish_llm(logs, Some(url), Some(text), result, "hybrid", db, available_again)

\* explain_prediction: available is what is_available() returned, o what the
\* chain did, original_prediction is request.get("prediction", "").  The
\* HTTPException with status 503 is raised inside the try, and the except
\* that follows catches every Exception, HTTPException included.
explain_prediction(available, o, original_prediction) ==
    LET raised == IF ~available
                  THEN Some(HTTPException(503, "LLM service unavailable"))
                  ELSE IF o.raises THEN Some("chain.invoke raised")
                  ELSE Nothing
    IN  IF raised.some
        THEN HTTPException(500, "Failed to generate explanation")
        ELSE [status |-> 200, explanation |-> "explanation",
              original_prediction |-> original_prediction]

-----------------------------------------------------------------------------
(* The /analytics handlers that count rows by model type.  q is what the   *)
(* session's queries did: "ok" or "query_raises".  The averages and the    *)
(* percentages of the responses are left out: no property reads them.      *)

\* db.query(PredictionLog).filter(column == value).count()
CountRows(logs, column, value) ==
    Cardinality({i \in DOMAIN logs : logs[i][column] = value})

\* for model_type in ["url", "text", "hybrid"]
models == {"url", "text", "hybrid"}

\* get_analytics_summary
get_analytics_summary(logs, q) ==
    IF q = "query_raises" THEN HTTPException(500, "Internal server error")
    ELSE [status |-> 200,
          total_predictions |-> Len(logs),
          phishing_count |-> CountRows(logs, "prediction", "Phishing"),
          legitimate_count |-> CountRows(logs, "prediction", "Legitimate"),
          model_usage |-> [model_type \in models |-> CountRows(logs, "model_type", model_type)]]

\* get_model_performance
get_model_performance(logs, q) ==
    IF q = "query_raises" THEN HTTPException(500, "Internal server error")
    ELSE [status |-> 200,
          performance |->
              [model_type \in models |->
                  LET predictions == SelectSeq(logs, LAMBDA p : p.model_type = model_type)
                      total == Len(predictions)
                      phishing_count == CountRows(predictions, "prediction", "Phishing")
                  IN  [total_predictions |-> total,
                       phishing_count |-> phishing_count,
                       legitimate_count |-> total - phishing_count]]]

\* The rows with their id, the position of the insert.  A row's timestamp is
\* the time of its insert, so a row with a larger id has the later timestamp.
WithIds(logs) ==
    [i \in DOMAIN logs |->
        [id |-> i, url |-> logs[i].url, text |-> logs[i].text,
         prediction |-> logs[i].prediction, confidence |-> logs[i].confidence,
         model_type |-> logs[i].model_type]]

\* query.order_by(desc(PredictionLog.timestamp))
Reverse(s) == [i \in DOMAIN s |-> s[Len(s) + 1 - i]]

\* query.offset(offset).limit(limit).all()
Page(s, offset, limit) ==
    SubSeq(s, offset + 1, IF offset + limit < Len(s) THEN offset + limit ELSE Len(s))

\* PredictionHistory(...) raises for a row whose prediction is NULL (the
\* field is declared str) or whose confidence is no number (declared float)
history_rejects(row) == row.prediction = None \/ ~row.confidence.num

\* get_prediction_history.  model_type and prediction are the query
\* parameters, Nothing when not given; a filter is applied when its
\* parameter is given and not empty.
get_prediction_history(logs, limit, offset, model_type, prediction, q) ==
    IF q = "query_raises" THEN HTTPException(500, "Internal server error")
    ELSE
    With(WithIds(logs), LAMBDA rows :
    With(IF model_type.some /\ model_type.v # ""
         THEN SelectSeq(rows, LAMBDA p : p.model_type = model_type.v)
         ELSE rows, LAMBDA by_model :
    With(IF prediction.some /\ prediction.v # ""
         THEN SelectSeq(by_model, LAMBDA p : p.prediction = prediction.v)
         ELSE by_model, LAMBDA by_prediction :
    With(Page(Reverse(by_prediction), offset, limit), LAMBDA predictions :
        IF \E i \in DOMAIN predictions : history_rejects(predictions[i])
        THEN HTTPException(500, "Internal server error")
        ELSE [status |-> 200, rows |-> predictions]))))

-----------------------------------------------------------------------------
(* Inputs of the prediction pipeline                                       *)

\* http://a.tk/login
UrlPlain == <<"h","t","t","p",":","/","/","a",".","t","k","/","l","o","g","i","n">>

\* https://[a/x.php?id=1 : urlparse raises on it
UrlMalformed ==
    <<"h","t","t","p","s",":","/","/","[","a","/","x",".","p","h","p","?","i","d","=","1">>

\* //1.2.3.4/A_b
UrlIp == <<"/","/","1",".","2",".","3",".","4","/","A","_","b">>

PredictUrls == {UrlPlain, UrlMalformed, UrlIp}

\* "Verify your account here!"
TextUrgent ==
    <<"V","e","r","i","f","y"," ","y","o","u","r"," ","a","c","c","o","u","n","t",
      " ","h","e","r","e","!">>

\* "the scam"
TextShort == <<"t","h","e"," ","s","c","a","m">>

PredictTexts == {<<>>, TextShort, TextUrgent}

\* What a classifier can do on a call
ClassifierOutcomes ==
    { [raise_at |-> r, cls |-> 0, proba |-> <<1000, 0>>] :
          r \in {"scale", "predict", "predict_proba", "int"} }
    \cup
    { [raise_at |-> "none", cls |-> c, proba |-> p] :
          c \in {0, 1, 2}, p \in {<<800, 200>>, <<200, 800>>, <<200, 300, 500>>} }

WhoisOutcomes ==
    { [raises |-> TRUE, has_creation_date |-> FALSE, age_days |-> 0,
       registrar |-> FALSE, country |-> FALSE],
      [raises |-> FALSE, has_creation_date |-> TRUE, age_days |-> 400,
       registrar |-> TRUE, country |-> FALSE],
      [raises |-> FALSE, has_creation_date |-> FALSE, age_days |-> 0,
       registrar |-> FALSE, country |-> TRUE] }

PageOutcomes ==
    { [raises |-> TRUE, text |-> <<>>],
      [raises |-> FALSE, text |-> <<>>],
      [raises |-> FALSE, text |-> TextShort] }

TfidfOutcomes ==
    { [raises |-> TRUE, weights |-> <<>>],
      [raises |-> FALSE, weights |-> <<300, 0, 700>>] }

ExtractorOutcomes ==
    { [whois |-> w, page |-> p, tokenize_raises |-> k, tfidf |-> t] :
          w \in WhoisOutcomes, p \in PageOutcomes, k \in BOOLEAN, t \in TfidfOutcomes }

\* The extractor outcomes predict_text depends on: no WHOIS, no page
TextExtractorOutcomes ==
    { e \in ExtractorOutcomes :
          /\ e.whois.raises
          /\ e.page.raises }

\* The extractor outcomes predict_hybrid depends on: no vectorizer
HybridExtractorOutcomes == { e \in ExtractorOutcomes : e.tfidf.raises }

\* Feature-name lists as a training run would save them; each names a
\* feature its extractor does not produce and leaves out many it does.
UrlFeatureNames == <<"has_https", "url_length", "page_rank", "num_dots", "suspicious_keywords">>

TextFeatureNames == <<"word_count", "tfidf_1", "sentiment", "text_length">>

HybridFeatureNames ==
    <<"word_count", "url_length", "domain_age_days", "suspicious_keywords", "page_rank">>

AScaler == [mean |-> 2, scale |-> 4]

\* The artifacts of one model group: [model, scaler, names of kind k]
GroupStates(names) ==
    { [model |-> FALSE, scaler |-> Nothing, names |-> Nothing],
      [model |-> TRUE, scaler |-> Nothing, names |-> Nothing],
      [model |-> TRUE, scaler |-> Some(AScaler), names |-> Nothing],
      [model |-> TRUE, scaler |-> Nothing, names |-> Some(<<>>)],
      [model |-> TRUE, scaler |-> Nothing, names |-> Some(names)],
      [model |-> TRUE, scaler |-> Some(AScaler), names |-> Some(names)] }

\* The loader with the three groups in the i-th, j-th and k-th state
Loader(u, t, h, tfidf) ==
    [url_model |-> u.model, url_scaler |-> u.scaler, url_feature_names |-> u.names,
     text_model |-> t.model, text_scaler |-> t.scaler, text_feature_names |-> t.names,
     hybrid_model |-> h.model, hybrid_scaler |-> h.scaler,
     hybrid_feature_names |-> h.names, tfidf |-> tfidf]

NothingLoaded ==
    Loader([model |-> FALSE, scaler |-> Nothing, names |-> Nothing],
           [model |-> FALSE, scaler |-> Nothing, names |-> Nothing],
           [model |-> FALSE, scaler |-> Nothing, names |-> Nothing], FALSE)

\* The loaders in which one group varies and the other two are not loaded
LoaderStates ==
    { Loader(u, [model |-> FALSE, scaler |-> Nothing, names |-> Nothing],
             [model |-> FALSE, scaler |-> Nothing, names |-> Nothing], FALSE) :
          u \in GroupStates(UrlFeatureNames) }
    \cup
    { Loader([model |-> FALSE, scaler |-> Nothing, names |-> Nothing], t,
             [model |-> FALSE, scaler |-> Nothing, names |-> Nothing], f) :
          t \in GroupStates(TextFeatureNames), f \in BOOLEAN }
    \cup
    { Loader([model |-> FALSE, scaler |-> Nothing, names |-> Nothing],
             [model |-> FALSE, scaler |-> Nothing, names |-> Nothing], h, FALSE) :
          h \in GroupStates(HybridFeatureNames) }

Idle == [op |-> "idle"]

NoResponse == [status |-> 0]

-----------------------------------------------------------------------------
(* SpecPredict: one call of predict_url, predict_text or predict_hybrid on *)
(* a loader in any of its states.  call keeps the artifacts used, what the *)
(* classifier did and the outcome.                                         *)

InitPredict ==
    /\ loader \in LoaderStates
    /\ llm = FALSE
    /\ prediction_logs = <<>>
    /\ response = NoResponse
    /\ call = Idle

CallPredictUrl ==
    /\ call = Idle
    /\ \E url \in PredictUrls, m \in ClassifierOutcomes :
          call' = [op |-> "predict_url", kind |-> "url",
                   model |-> loader.url_model, names |-> loader.url_feature_names,
                   scaler |-> loader.url_scaler, m |-> m, out |-> predict_url(loader, url, m)]
    /\ UNCHANGED <<loader, llm, prediction_logs, response>>

CallPredictText ==
    /\ call = Idle
    /\ \E text \in PredictTexts, e \in TextExtractorOutcomes, m \in ClassifierOutcomes :
          call' = [op |-> "predict_text", kind |-> "text",
                   model |-> loader.text_model, names |-> loader.text_feature_names,
                   scaler |-> loader.text_scaler, m |-> m, out |-> predict_text(loader, text, e, m)]
    /\ UNCHANGED <<loader, llm, prediction_logs, response>>

CallPredictHybrid ==
    /\ call = Idle
    /\ \E url \in PredictUrls, text \in {Nothing} \cup {Some(t) : t \in PredictTexts},
          e \in HybridExtractorOutcomes, m \in ClassifierOutcomes :
          call' = [op |-> "predict_hybrid", kind |-> "hybrid",
                   model |-> loader.hybrid_model, names |-> loader.hybrid_feature_names,
                   scaler |-> loader.hybrid_scaler, m |-> m, out |-> predict_hybrid(loader, url, text, e, m)]
    /\ UNCHANGED <<loader, llm, prediction_logs, response>>

NextPredict == CallPredictUrl \/ CallPredictText \/ CallPredictHybrid

SpecPredict == InitPredict /\ [][NextPredict]_vars

-----------------------------------------------------------------------------
(* Claims about predict_url, predict_text and predict_hybrid (SpecPredict) *)

\* The classifier or the scaler raised on the call: the step named by
\* call.m.raise_at was reached with the artifacts the call used.
StepRaised ==
    \/ call.m.raise_at \in {"predict", "predict_proba", "int"}
    \/ call.m.raise_at = "scale" /\ call.scaler.some

\* C3: a call of predict_url, predict_text or predict_hybrid always returns
\* a pair.  It returns ("Model not available", 0.0) and runs no step, not
\* even extraction, when the model is not loaded; ("Error", 0.0) when the
\* model is loaded and extraction, scaling or classification raises.  The
\* label is always one of the four, and the confidence is 0.0 with the two
\* failure labels.
C3_TwoFailureOutcomes ==
    call # Idle =>
        /\ call.out.label \in {"Phishing", "Legitimate", "Model not available", "Error"}
        /\ ~call.model =>
               /\ call.out.label = "Model not available"
               /\ call.out.confidence = 0
               /\ call.out.steps = <<>>
               /\ call.out.raw = <<>>
        /\ call.model => call.out.label # "Model not available"
        /\ (call.model /\ (call.out.steps = <<"extract">> \/ StepRaised)) =>
               /\ call.out.label = "Error"
               /\ call.out.confidence = 0
        /\ call.out.label \in {"Model not available", "Error"} => call.out.confidence = 0

\* predict_hybrid with the model loaded, whose extraction raised
C3_Witness ==
    /\ call # Idle
    /\ call.op = "predict_hybrid"
    /\ call.model
    /\ call.out.steps = <<"extract">>
    /\ call.out.label = "Error"
    /\ call.out.confidence = 0

C5_OrderedBySchema ==
    (call # Idle /\ call.names.some /\ call.names.v # <<>> /\ Len(call.out.steps) >= 2) =>
        /\ Len(call.out.ordered) = Len(call.names.v)
        /\ \A i \in DOMAIN call.names.v :
               /\ \A j \in DOMAIN call.out.raw :
                      call.out.raw[j][1] = call.names.v[i]
                          => call.out.ordered[i] = call.out.raw[j][2]
               /\ (\A j \in DOMAIN call.out.raw : call.out.raw[j][1] # call.names.v[i])
                      => call.out.ordered[i] = 0
        /\ call.out.layout = call.names.v
        /\ call.out.handed => Len(call.out.vector) = Len(call.names.v)

\* predict_hybrid with its names loaded: "page_rank" is not extracted and
\* reads 0.0, "url_length" is, and most extracted features are dropped
C5_Witness ==
    /\ call # Idle
    /\ call.op = "predict_hybrid"
    /\ call.names = Some(HybridFeatureNames)
    /\ call.out.handed
    /\ call.out.ordered[5] = 0
    /\ call.out.ordered[2] > 0
    /\ Len(call.out.raw) > Len(call.out.ordered)
    /\ call.out.raw[1][1] = "url_length"

\* C6: the vector predict_hybrid hands to the scaler and classifier has the
\* same length and the same feature at each position for all inputs: the
\* layout of a call is the layout of the call on http://a.tk/login with the
\* text "the scam" under the same loader.
C6_FixedOrderVector ==
    (call # Idle /\ call.op = "predict_hybrid" /\ Len(call.out.steps) >= 2) =>
        call.out.layout =
            order_layout(
                hybrid_extract_features(UrlPlain, Some(TextShort),
                    CHOOSE e \in HybridExtractorOutcomes : ~e.tokenize_raises).features,
                call.names)

-----------------------------------------------------------------------------
(* Inputs of the LLM path: what the chain did on a call                    *)

\* The object json.loads gave, with the keys the answer has
JsonAnswer(prediction, confidence) ==
    [braces |-> TRUE,
     json |-> Some([prediction |-> prediction, confidence |-> confidence,
                    explanation |-> Some("because"),
                    risk_factors |-> Some(<<"urgent wording">>),
                    recommendations |-> Nothing]),
     phishing_word |-> FALSE, legitimate_word |-> FALSE, percents |-> <<>>]

\* An answer that is no JSON object
ProseAnswer(braces, phishing_word, legitimate_word, percents) ==
    [braces |-> braces, json |-> Nothing, phishing_word |-> phishing_word,
     legitimate_word |-> legitimate_word, percents |-> percents]

LlmAnswers ==
    { JsonAnswer(Some("PHISHING"), Some(Num(800))),
      JsonAnswer(Some("phishing"), Some(Num(400))),
      JsonAnswer(Some("LEGITIMATE"), Some(Num(950))),
      JsonAnswer(Some("LEGITIMATE"), Some(Num(600))),
      JsonAnswer(Some("LEGITIMATE"), Nothing),
      JsonAnswer(Some("LEGITIMATE"), Some(NotNum)),
      JsonAnswer(Some("PHISHING"), Some(NotNum)),
      JsonAnswer(Some(None), Some(Num(800))),
      JsonAnswer(Nothing, Nothing),
      JsonAnswer(Some("Suspicious"), Some(Num(1200))),
      ProseAnswer(FALSE, TRUE, TRUE, <<90, 10>>),
      ProseAnswer(FALSE, FALSE, TRUE, <<>>),
      ProseAnswer(TRUE, FALSE, FALSE, <<150>>) }

ChainOutcomes ==
    {[raises |-> TRUE, text |-> ProseAnswer(FALSE, FALSE, FALSE, <<>>)]}
    \cup {[raises |-> FALSE, text |-> t] : t \in LlmAnswers}

\* What the URL classifier does in the calls of final_url_analysis
CombineClassifierOutcomes ==
    { [raise_at |-> "predict", cls |-> 0, proba |-> <<1000, 0>>],
      [raise_at |-> "none", cls |-> 1, proba |-> <<200, 800>>],
      [raise_at |-> "none", cls |-> 0, proba |-> <<800, 200>>],
      [raise_at |-> "none", cls |-> 1, proba |-> <<400, 600>>],
      [raise_at |-> "none", cls |-> 2, proba |-> <<200, 300, 500>>] }

UrlModelLoaded ==
    Loader([model |-> TRUE, scaler |-> Nothing, names |-> Nothing],
           [model |-> FALSE, scaler |-> Nothing, names |-> Nothing],
           [model |-> FALSE, scaler |-> Nothing, names |-> Nothing], FALSE)

-----------------------------------------------------------------------------
(* SpecCombine: one call of analyze_url, analyze_text, analyze_hybrid or   *)
(* final_url_analysis, with the URL model loaded or not and the LLM        *)
(* constructed or not.                                                     *)

InitCombine ==
    /\ loader \in {UrlModelLoaded, NothingLoaded}
    /\ llm \in BOOLEAN
    /\ prediction_logs = <<>>
    /\ response = NoResponse
    /\ call = Idle

CallAnalyzeUrl ==
    /\ call = Idle
    /\ \E o \in ChainOutcomes :
          call' = [op |-> "analyze_url", o |-> o, out |-> analyze_url(llm, o)]
    /\ UNCHANGED <<loader, llm, prediction_logs, response>>

CallAnalyzeText ==
    /\ call = Idle
    /\ \E o \in ChainOutcomes :
          call' = [op |-> "analyze_text", o |-> o, out |-> analyze_text(llm, o)]
    /\ UNCHANGED <<loader, llm, prediction_logs, response>>

CallAnalyzeHybrid ==
    /\ call = Idle
    /\ \E o \in ChainOutcomes :
          call' = [op |-> "analyze_hybrid", o |-> o, out |-> analyze_hybrid(llm, o)]
    /\ UNCHANGED <<loader, llm, prediction_logs, response>>

\* final_url_analysis(url): predict_url, then analyze_url, and analyze_url
\* once more when the combining step raised
CallFinalUrlAnalysis ==
    /\ call = Idle
    /\ \E url \in {UrlPlain}, m \in CombineClassifierOutcomes,
          o1 \in ChainOutcomes, o2 \in ChainOutcomes :
          call' =
              With(predict_url(loader, url, m), LAMBDA p :
              With([label |-> p.label, confidence |-> p.confidence], LAMBDA ml :
              With(analyze_url(llm, o1), LAMBDA first :
              With(analyze_url(llm, o2), LAMBDA second :
                  [op |-> "final_url_analysis", ml |-> ml, first |-> first,
                   second |-> second,
                   out |-> final_url_analysis(ml, first, Returned(second))]))))
    /\ UNCHANGED <<loader, llm, prediction_logs, response>>

NextCombine ==
    CallAnalyzeUrl \/ CallAnalyzeText \/ CallAnalyzeHybrid \/ CallFinalUrlAnalysis

SpecCombine == InitCombine /\ [][NextCombine]_vars

-----------------------------------------------------------------------------
(* Claims about final_url_analysis (SpecCombine)                           *)

\* C1: final_url_analysis returns, with avg the mean of the ML confidence
\* and the LLM confidence, ("PHISHING", max(0.9, avg)) when the ML label is
\* Phishing and the LLM prediction is PHISHING, ("PHISHING", max(0.7, avg))
\* when exactly one of them is, and ("LEGITIMATE", avg) otherwise; a
\* PHISHING result has confidence at least 0.7.  Neither predict_url nor
\* analyze_url raises, so this is stated of every call.
C1_ConfidencePolicy ==
    call.op = "final_url_analysis" =>
        /\ call.first.confidence.num
        /\ call.out.confidence.num
        /\ LET ml_phishing  == call.ml.label = "Phishing"
               llm_phishing == /\ call.first.prediction # None
                               /\ Upper(call.first.prediction) = "PHISHING"
               sum == call.ml.confidence + call.first.confidence.n
           IN  IF ml_phishing /\ llm_phishing
               THEN /\ call.out.prediction = "PHISHING"
                    /\ call.out.confidence.n = (IF sum > 1800 THEN sum \div 2 ELSE 900)
               ELSE IF ml_phishing \/ llm_phishing
               THEN /\ call.out.prediction = "PHISHING"
                    /\ call.out.confidence.n = (IF sum > 1400 THEN sum \div 2 ELSE 700)
               ELSE /\ call.out.prediction = "LEGITIMATE"
                    /\ 2 * call.out.confidence.n = sum
        /\ call.out.prediction = "PHISHING" => call.out.confidence.n >= 700

\* C2: the combining step returns "LEGITIMATE" only when the ML label is
\* Legitimate and the LLM prediction is LEGITIMATE; never with the ML label
\* "Error" or "Model not available", nor with the LLM prediction "UNKNOWN".
C2_LegitimateOnlyWhenBothAgree ==
    (call.op = "final_url_analysis" /\ call.out.path = "combined"
        /\ call.out.prediction = "LEGITIMATE") =>
        /\ call.ml.label = "Legitimate"
        /\ Upper(call.first.prediction) = "LEGITIMATE"

-----------------------------------------------------------------------------
(* Claims about the LLM results (SpecCombine)                              *)

\* C12: every LLMAnalysisResult that analyze_url, analyze_text or
\* analyze_hybrid returns has prediction "PHISHING" or "LEGITIMATE".
C12_PredictionIsPhishingOrLegitimate ==
    call.op \in {"analyze_url", "analyze_text", "analyze_hybrid"} =>
        call.out.prediction \in {"PHISHING", "LEGITIMATE"}

\* C13: every confidence of the LLM path is a number from 0.0 to 1.0: the
\* confidence of what PhishingAnalysisParser.parse gives for the LLM's
\* answer, the confidence of every LLMAnalysisResult of analyze_url,
\* analyze_text and analyze_hybrid, and the confidence final_url_analysis
\* returns.
C13_ConfidenceInUnitRange ==
    /\ call.op \in {"analyze_url", "analyze_text", "analyze_hybrid"} =>
           /\ call.out.confidence.num
           /\ call.out.confidence.n \in 0..1000
           /\ (llm /\ ~call.o.raises) =>
                  \A c \in {get_confidence(parse(call.o.text))} :
                      c.num /\ c.n \in 0..1000
    /\ call.op = "final_url_analysis" =>
           /\ call.out.confidence.num
           /\ call.out.confidence.n \in 0..1000

\* C15: final_url_analysis always returns a pair.  When the combining step
\* raises (the LLM prediction has no upper(), or the LLM confidence cannot be
\* added), it returns the prediction and the confidence of a second
\* analyze_url call as they are; and were that call to raise, it would
\* return ("LEGITIMATE", 0.5).  When the combining step does not raise, the
\* result is the combined one.
C15_FallsBackToLlmAlone ==
    call.op = "final_url_analysis" =>
        LET step_raises == call.first.prediction = None \/ ~call.first.confidence.num
        IN  /\ DOMAIN call.out = {"prediction", "confidence", "path"}
            /\ step_raises =>
                   /\ call.out.path = "llm_only"
                   /\ call.out.prediction = call.second.prediction
                   /\ call.out.confidence = call.second.confidence
                   /\ final_url_analysis(call.ml, call.first, Raised) =
                          [prediction |-> "LEGITIMATE", confidence |-> Num(500),
                           path |-> "default"]
            /\ ~step_raises => call.out.path = "combined"

\* The first answer PHISHING with the confidence "high", the second
\* LEGITIMATE at 0.95: the result is ("LEGITIMATE", 0.95)
C15_Witness ==
    /\ call.op = "final_url_analysis"
    /\ call.first.prediction = "PHISHING"
    /\ ~call.first.confidence.num
    /\ call.second.prediction = "LEGITIMATE"
    /\ call.out.path = "llm_only"
    /\ call.out.prediction = "LEGITIMATE"
    /\ call.out.confidence = Num(950)

\* C16: analyze_url never returns "LEGITIMATE" with a confidence below 0.9.
\* When the parsed answer says "LEGITIMATE" with a confidence below 0.9, or
\* with none (read as 0.5), the result is "PHISHING" with that confidence;
\* when the parsed answer has any other prediction, the result carries the
\* answer's prediction ("UNKNOWN" for none), confidence, explanation, risk
\* factors and recommendations as they are.
C16_PhishingBias ==
    call.op = "analyze_url" =>
        /\ ~(/\ call.out.prediction = "LEGITIMATE"
             /\ call.out.confidence.num
             /\ call.out.confidence.n < 900)
        /\ (llm /\ ~call.o.raises) =>
               \A a \in {parse(call.o.text)} :
               \A c \in {IF a.confidence.some THEN a.confidence.v ELSE Num(500)} :
                   /\ (a.prediction = Some("LEGITIMATE") /\ c.num /\ c.n < 900) =>
                          /\ call.out.prediction = "PHISHING"
                          /\ call.out.confidence = c
                   /\ a.prediction # Some("LEGITIMATE") =>
                          /\ call.out.prediction =
                                 (IF a.prediction.some THEN a.prediction.v ELSE "UNKNOWN")
                          /\ call.out.confidence = c
                          /\ a.explanation.some => call.out.explanation = a.explanation.v
                          /\ a.risk_factors.some => call.out.risk_factors = a.risk_factors.v
                          /\ a.recommendations.some =>
                                 call.out.recommendations = a.recommendations.v

\* The LLM answers {"prediction": "LEGITIMATE", "confidence": 0.6}: the
\* result is PHISHING with confidence 0.6
C16_Witness ==
    /\ call.op = "analyze_url"
    /\ llm
    /\ ~call.o.raises
    /\ call.o.text = JsonAnswer(Some("LEGITIMATE"), Some(Num(600)))
    /\ call.out.prediction = "PHISHING"
    /\ call.out.confidence = Num(600)

-----------------------------------------------------------------------------
(* SpecExtract: one call of URLFeatureExtractor.extract_features on a URL  *)
(* put together from at most MaxUrlChunks pieces, well-formed or not, or   *)
(* one call of HybridFeatureExtractor.extract_features.                    *)

MaxUrlChunks == 3

UrlChunks ==
    { <<"h","t","t","p","s",":">>,
      <<"/","/">>,
      <<"[">>,
      <<"a",".","t","k">>,
      <<"1",".","2",".","3",".","4">>,
      <<"/","L","o","g","i","n">>,
      <<"?","i","d","=","1","&","p","=","2">>,
      <<"-","_","a","a","a">> }

RECURSIVE UrlsOf(_)
\* the strings of at most n chunks
UrlsOf(n) ==
    IF n = 0 THEN {<<>>}
    ELSE With(UrlsOf(n - 1), LAMBDA shorter :
             shorter \cup {u \o c : u \in shorter, c \in UrlChunks})

ExtractUrls == UrlsOf(MaxUrlChunks)

InitExtract ==
    /\ loader = NothingLoaded
    /\ llm = FALSE
    /\ prediction_logs = <<>>
    /\ response = NoResponse
    /\ call = Idle

CallUrlExtract ==
    /\ call = Idle
    /\ \E url \in ExtractUrls :
          call' = [op |-> "url_extract_features", url |-> url,
                   parse_raises |-> urlparse(url).raises,
                   out |-> url_extract_features(url)]
    /\ UNCHANGED <<loader, llm, prediction_logs, response>>

\* What HybridFeatureExtractor.extract_features is called with: a text or
\* None, the empty text included
HybridTexts == {Nothing} \cup {Some(t) : t \in PredictTexts}

\* One call of HybridFeatureExtractor.extract_features.  call keeps what the
\* URL extractor and the WHOIS extractor computed for the url.
CallHybridExtract ==
    /\ call = Idle
    /\ \E url \in PredictUrls, text \in HybridTexts, e \in HybridExtractorOutcomes :
       \E u \in {url_extract_features(url)} :
       \E w \in {whois_extract_features(url, e.whois)} :
       \E out \in {hybrid_extract_features(url, text, e)} :
          call' = [op |-> "hybrid_extract_features", url |-> url, text |-> text,
                   e |-> e, url_features |-> u, whois_features |-> w, out |-> out]
    /\ UNCHANGED <<loader, llm, prediction_logs, response>>

NextExtract == CallUrlExtract \/ CallHybridExtract

SpecExtract == InitExtract /\ [][NextExtract]_vars

\* C8: URLFeatureExtractor.extract_features returns its 24 features for
\* every string.  When urlparse raises on it, the six domain features, the
\* four path features and the three query features are all 0.0, and the
\* string-level features are those of the raw string: its length, its
\* counts of dots, hyphens, underscores, slashes and digits, and its
\* mixed-case flag.
C8_DefaultsOnParseFailure ==
    call.op = "url_extract_features" =>
        /\ Len(call.out) = 24
        /\ \A i, j \in DOMAIN call.out : call.out[i][1] = call.out[j][1] => i = j
        /\ call.parse_raises =>
               /\ \A k \in {"domain_length", "num_subdomains", "has_ip", "has_https",
                            "tld_length", "suspicious_tld",
                            "path_length", "num_directories", "has_file_extension",
                            "suspicious_path_keywords",
                            "query_length", "num_params", "suspicious_query_keywords"} :
                      \E i \in DOMAIN call.out : call.out[i] = <<k, 0>>
               /\ \E i \in DOMAIN call.out : call.out[i] = <<"url_length", Len(call.url)>>
               /\ \A c \in {<<"num_dots", ".">>, <<"num_hyphens", "-">>,
                            <<"num_underscores", "_">>, <<"num_slashes", "/">>} :
                      \E i \in DOMAIN call.out :
                          call.out[i] =
                              <<c[1], Cardinality({p \in DOMAIN call.url : call.url[p] = c[2]})>>
               /\ \E i \in DOMAIN call.out :
                      call.out[i] =
                          <<"num_digits",
                            Cardinality({p \in DOMAIN call.url : call.url[p] \in Digits})>>
               /\ \E i \in DOMAIN call.out :
                      call.out[i] =
                          <<"has_mixed_case",
                            IF /\ \E p \in DOMAIN call.url : IsLower(call.url[p])
                               /\ \E p \in DOMAIN call.url : IsUpper(call.url[p])
                            THEN 1 ELSE 0>>
               /\ \E i \in DOMAIN call.out :
                      /\ call.out[i][1] \in {"suspicious_keywords"}
                      /\ call.out[i][2] >=
                             (IF Contains(ToLower(call.url), <<"l","o","g","i","n">>)
                              THEN 1 ELSE 0)

\* //[/Login : urlparse raises, the path features read 0.0 and the keyword
\* "login" is still counted in the raw string
C8_Witness ==
    /\ call.op = "url_extract_features"
    /\ call.parse_raises
    /\ call.url = <<"/","/","[","/","L","o","g","i","n">>
    /\ \E i \in DOMAIN call.out : call.out[i] = <<"suspicious_keywords", 1>>
    /\ \E i \in DOMAIN call.out : call.out[i] = <<"path_length", 0>>
    /\ \E i \in DOMAIN call.out : call.out[i] = <<"url_length", 9>>

\* C17: suspicious_tld is 1.0 for every URL whose domain (the netloc
\* urlparse gives, lower-cased) ends in '.tk', '.ml', '.ga', '.cf',
\* '.click', '.download' or '.review', and 0.0 for every other URL.
C17_SuspiciousTld ==
    call.op = "url_extract_features" =>
        \A parsed \in {urlparse(call.url)} :
            LET listed ==
                    /\ ~parsed.raises
                    /\ \E t \in {<<".","t","k">>, <<".","m","l">>, <<".","g","a">>,
                                 <<".","c","f">>, <<".","c","l","i","c","k">>,
                                 <<".","d","o","w","n","l","o","a","d">>,
                                 <<".","r","e","v","i","e","w">>} :
                           EndsWith(ToLower(parsed.netloc), t)
            IN  \E i \in DOMAIN call.out :
                    call.out[i] = <<"suspicious_tld", IF listed THEN 1 ELSE 0>>

\* C18: every feature the URL extractor computed for the url, and every
\* feature the WHOIS extractor computed, is in the dictionary
\* HybridFeatureExtractor.extract_features returns, with the value that
\* extractor computed.
C18_NoFeatureLost ==
    (call.op = "hybrid_extract_features" /\ ~call.out.raises) =>
        /\ \A i \in DOMAIN call.url_features :
               \E j \in DOMAIN call.out.features :
                   call.out.features[j] = call.url_features[i]
        /\ \A i \in DOMAIN call.whois_features :
               \E j \in DOMAIN call.out.features :
                   call.out.features[j] = call.whois_features[i]

\* C19: HybridFeatureExtractor.extract_features fetches the page exactly
\* when text is None; a text the caller gave, the empty one included, is the
\* text used.  Without a text given, the text used is what the fetch gave,
\* '' when it failed.  The call raises only in the NLP step.  Its result
\* holds the NLP features exactly when the text used is not empty, and is
\* the URL features updated with the WHOIS features, nothing else, when the
\* text used is empty.
C19_FetchOnlyWithoutText ==
    call.op = "hybrid_extract_features" =>
        /\ call.out.fetched = (call.text = Nothing)
        /\ call.text # Nothing => call.out.text = call.text.v
        /\ call.text = Nothing =>
               call.out.text = (IF call.e.page.raises THEN <<>> ELSE call.e.page.text)
        /\ call.out.raises => call.out.text # <<>>
        /\ ~call.out.raises =>
               /\ (call.out.text # <<>>) =
                      (\E j \in DOMAIN call.out.features :
                           call.out.features[j][1] \in
                               {"text_length", "word_count", "avg_word_length",
                                "stop_word_ratio", "special_char_ratio"})
               /\ call.out.text = <<>> =>
                      /\ Len(call.out.features) =
                             Len(call.url_features) + Len(call.whois_features)
                      /\ call.out.features = call.url_features \o call.whois_features

\* The caller gives the empty text for a URL whose page would have been
\* fetched with the text "the scam": nothing is fetched, and the result has
\* the 24 URL features and the 3 WHOIS features only
C19_Witness ==
    /\ call.op = "hybrid_extract_features"
    /\ call.text = Some(<<>>)
    /\ ~call.e.page.raises
    /\ call.e.page.text = TextShort
    /\ ~call.out.fetched
    /\ ~call.out.raises
    /\ Len(call.out.features) = 27

-----------------------------------------------------------------------------
(* Spec: the server handling requests one after another.  prediction_logs  *)
(* is the table; call and response are the request being answered, and are *)
(* gone when the request ends.                                             *)

\* Rows the table holds at most
MaxRows == 2

\* a.tk
UrlShort == <<"a",".","t","k">>

AllLoaded ==
    Loader([model |-> TRUE, scaler |-> Nothing, names |-> Nothing],
           [model |-> TRUE, scaler |-> Nothing, names |-> Nothing],
           [model |-> TRUE, scaler |-> Nothing, names |-> Nothing], FALSE)

RequestClassifierOutcomes ==
    { [raise_at |-> "predict", cls |-> 0, proba |-> <<1000, 0>>],
      [raise_at |-> "none", cls |-> 1, proba |-> <<200, 800>>],
      [raise_at |-> "none", cls |-> 0, proba |-> <<800, 200>>] }

RequestChainOutcomes ==
    { [raises |-> TRUE, text |-> ProseAnswer(FALSE, FALSE, FALSE, <<>>)],
      [raises |-> FALSE, text |-> JsonAnswer(Some("PHISHING"), Some(Num(800)))],
      [raises |-> FALSE, text |-> JsonAnswer(Some("LEGITIMATE"), Some(Num(950)))],
      [raises |-> FALSE, text |-> JsonAnswer(Some("PHISHING"), Some(NotNum))],
      [raises |-> FALSE, text |-> JsonAnswer(Some(None), Some(Num(800)))] }

\* WHOIS and the page fetch fail, the tokenizer works
RequestExtractorOutcomes ==
    { e \in ExtractorOutcomes :
          e.whois.raises /\ e.page.raises /\ ~e.tokenize_raises /\ e.tfidf.raises }

DbOutcomes == {"ok", "commit_raises", "rollback_raises"}

\* (result, confidence) of a predict_* call
Pair(p) == [label |-> p.label, confidence |-> p.confidence]

\* What is kept of the request being answered
Request(op, route, kind, url, text, available, ml, result, db, build_raises) ==
    [op |-> op, route |-> route, kind |-> kind, url |-> url, text |-> text,
     available |-> available, ml |-> ml, result |-> result, db |-> db,
     build_raises |-> build_raises, rows_before |-> Len(prediction_logs)]

Init ==
    /\ loader \in {AllLoaded, NothingLoaded}
    /\ llm \in BOOLEAN
    /\ prediction_logs = <<>>
    /\ response = NoResponse
    /\ call = Idle

\* predict_url_endpoint with a loader that drops its models when a prediction
\* fails
PredictUrl_Unloading ==
    /\ call = Idle
    /\ Len(prediction_logs) < MaxRows
    /\ \E url \in {UrlShort}, m \in RequestClassifierOutcomes :
       \E ml \in {Pair(predict_url(loader, url, m))} :
       \E db \in DbOutcomes :
       \E h \in {predict_url_endpoint(prediction_logs, url, ml, db)} :
          /\ prediction_logs' = h.logs
          /\ response' = h.response
          /\ call' = Request("predict_url_endpoint", "predict", "url", Some(url),
                             Nothing, FALSE, Some(ml), Nothing, db, FALSE)
          /\ loader' = IF ml.label = "Error" THEN NothingLoaded ELSE loader
    /\ UNCHANGED llm

\* POST /predict/url
PredictUrl ==
    /\ call = Idle
    /\ Len(prediction_logs) < MaxRows
    /\ \E url \in {UrlShort}, m \in RequestClassifierOutcomes :
       \E ml \in {Pair(predict_url(loader, url, m))} :
       \E db \in DbOutcomes :
       \E h \in {predict_url_endpoint(prediction_logs, url, ml, db)} :
          /\ prediction_logs' = h.logs
          /\ response' = h.response
          /\ call' = Request("predict_url_endpoint", "predict", "url", Some(url),
                             Nothing, FALSE, Some(ml), Nothing, db, FALSE)
    /\ UNCHANGED <<loader, llm>>

\* POST /predict/text
PredictText ==
    /\ call = Idle
    /\ Len(prediction_logs) < MaxRows
    /\ \E text \in {TextShort}, e \in RequestExtractorOutcomes,
          m \in RequestClassifierOutcomes :
       \E ml \in {Pair(predict_text(loader, text, e, m))} :
       \E db \in DbOutcomes :
       \E h \in {predict_text_endpoint(prediction_logs, text, ml, db)} :
          /\ prediction_logs' = h.logs
          /\ response' = h.response
          /\ call' = Request("predict_text_endpoint", "predict", "text", Nothing,
                             Some(text), FALSE, Some(ml), Nothing, db, FALSE)
    /\ UNCHANGED <<loader, llm>>

\* POST /predict/hybrid, with or without a text
PredictHybrid ==
    /\ call = Idle
    /\ Len(prediction_logs) < MaxRows
    /\ \E url \in {UrlShort}, text \in {Nothing, Some(TextShort)},
          e \in RequestExtractorOutcomes, m \in RequestClassifierOutcomes :
       \E ml \in {Pair(predict_hybrid(loader, url, text, e, m))} :
       \E db \in DbOutcomes, build_raises \in BOOLEAN :
       \E h \in {predict_hybrid_endpoint(prediction_logs, url, text, ml, db, build_raises)} :
          /\ prediction_logs' = h.logs
          /\ response' = h.response
          /\ call' = Request("predict_hybrid_endpoint", "predict", "hybrid", Some(url),
                             text, FALSE, Some(ml), Nothing, db, build_raises)
    /\ UNCHANGED <<loader, llm>>

\* POST /llm-predict/url with is_available() true, at the start of the
\* request and when the response is built.  The LLM answers the second
\* analyze_url call of final_url_analysis as it answered the first.
LlmPredictUrl ==
    /\ call = Idle
    /\ Len(prediction_logs) < MaxRows
    /\ \E probe_ok \in BOOLEAN : is_available(llm, probe_ok)
    /\ \E url \in {UrlShort}, m \in RequestClassifierOutcomes,
          o \in RequestChainOutcomes :
       \E ml \in {Pair(predict_url(loader, url, m))} :
       \E first \in {analyze_url(llm, o)} :
       \E final \in {final_url_analysis(ml, first, Returned(first))} :
       \E db \in DbOutcomes :
       \E h \in {predict_url_llm(prediction_logs, url, TRUE, final, ml, db, TRUE)} :
          /\ prediction_logs' = h.logs
          /\ response' = h.response
          /\ call' = Request("predict_url_llm", "llm", "url", Some(url), Nothing,
                             TRUE, Some(ml),
                             Some([prediction |-> final.prediction,
                                   confidence |-> final.confidence]),
                             db, FALSE)
    /\ UNCHANGED <<loader, llm>>

\* POST /llm-predict/url with is_available() false
LlmPredictUrlFallback ==
    /\ call = Idle
    /\ Len(prediction_logs) < MaxRows
    /\ \E probe_ok \in BOOLEAN : ~is_available(llm, probe_ok)
    /\ \E url \in {UrlShort}, m \in RequestClassifierOutcomes :
       \E ml \in {Pair(predict_url(loader, url, m))} :
       \E db \in DbOutcomes :
       \E h \in {predict_url_llm(prediction_logs, url, FALSE, fallback_result, ml,
                                 db, FALSE)} :
          /\ prediction_logs' = h.logs
          /\ response' = h.response
          /\ call' = Request("predict_url_llm", "llm", "url", Some(url), Nothing,
                             FALSE, Some(ml), Nothing, db, FALSE)
    /\ UNCHANGED <<loader, llm>>

\* POST /llm-predict/text with is_available() true
LlmPredictText ==
    /\ call = Idle
    /\ Len(prediction_logs) < MaxRows
    /\ \E probe_ok \in BOOLEAN : is_available(llm, probe_ok)
    /\ \E text \in {TextShort}, o \in RequestChainOutcomes :
       \E analysis \in {analyze_text(llm, o)} :
       \E db \in DbOutcomes :
       \E h \in {predict_text_llm(prediction_logs, text, TRUE, analysis,
                                  Pair(model_not_available), db, TRUE)} :
          /\ prediction_logs' = h.logs
          /\ response' = h.response
          /\ call' = Request("predict_text_llm", "llm", "text", Nothing, Some(text),
                             TRUE, Nothing, Some(analysis), db, FALSE)
    /\ UNCHANGED <<loader, llm>>

\* POST /llm-predict/text with is_available() false
LlmPredictTextFallback ==
    /\ call = Idle
    /\ Len(prediction_logs) < MaxRows
    /\ \E probe_ok \in BOOLEAN : ~is_available(llm, probe_ok)
    /\ \E text \in {TextShort}, e \in RequestExtractorOutcomes,
          m \in RequestClassifierOutcomes :
       \E ml \in {Pair(predict_text(loader, text, e, m))} :
       \E db \in DbOutcomes :
       \E h \in {predict_text_llm(prediction_logs, text, FALSE, fallback_result, ml,
                                  db, FALSE)} :
          /\ prediction_logs' = h.logs
          /\ response' = h.response
          /\ call' = Request("predict_text_llm", "llm", "text", Nothing, Some(text),
                             FALSE, Some(ml), Nothing, db, FALSE)
    /\ UNCHANGED <<loader, llm>>

\* POST /llm-predict/hybrid with is_available() true
LlmPredictHybrid ==
    /\ call = Idle
    /\ Len(prediction_logs) < MaxRows
    /\ \E probe_ok \in BOOLEAN : is_available(llm, probe_ok)
    /\ \E url \in {UrlShort}, text \in {TextShort}, o \in RequestChainOutcomes :
       \E analysis \in {analyze_hybrid(llm, o)} :
       \E db \in DbOutcomes :
       \E h \in {predict_hybrid_llm(prediction_logs, url, text, TRUE, analysis,
                                    Pair(model_not_available), db, TRUE)} :
          /\ prediction_logs' = h.logs
          /\ response' = h.response
          /\ call' = Request("predict_hybrid_llm", "llm", "hybrid", Some(url), Some(text),
                             TRUE, Nothing, Some(analysis), db, FALSE)
    /\ UNCHANGED <<loader, llm>>

\* POST /llm-predict/hybrid with is_available() false
LlmPredictHybridFallback ==
    /\ call = Idle
    /\ Len(prediction_logs) < MaxRows
    /\ \E probe_ok \in BOOLEAN : ~is_available(llm, probe_ok)
    /\ \E url \in {UrlShort}, text \in {TextShort}, e \in RequestExtractorOutcomes,
          m \in RequestClassifierOutcomes :
       \E ml \in {Pair(predict_hybrid(loader, url, Some(text), e, m))} :
       \E db \in DbOutcomes :
       \E h \in {predict_hybrid_llm(prediction_logs, url, text, FALSE, fallback_result,
                                    ml, db, FALSE)} :
          /\ prediction_logs' = h.logs
          /\ response' = h.response
          /\ call' = Request("predict_hybrid_llm", "llm", "hybrid", Some(url), Some(text),
                             FALSE, Some(ml), Nothing, db, FALSE)
    /\ UNCHANGED <<loader, llm>>

\* POST /llm-predict/explain
ExplainPrediction ==
    /\ call = Idle
    /\ \E probe_ok \in BOOLEAN, o \in RequestChainOutcomes,
          original_prediction \in {"", "Phishing"} :
       \E available \in {is_available(llm, probe_ok)} :
          /\ response' = explain_prediction(available, o, original_prediction)
          /\ call' = Request("explain_prediction", "explain", "none", Nothing, Nothing,
                             available, Nothing, Nothing, "ok", FALSE)
                     @@ [chain_raises |-> o.raises]
    /\ UNCHANGED <<loader, llm, prediction_logs>>

QueryOutcomes == {"ok", "query_raises"}

\* GET /analytics/summary
GetAnalyticsSummary ==
    /\ call = Idle
    /\ \E q \in QueryOutcomes :
          /\ response' = get_analytics_summary(prediction_logs, q)
          /\ call' = Request("get_analytics_summary", "analytics", "none", Nothing,
                             Nothing, FALSE, Nothing, Nothing, q, FALSE)
    /\ UNCHANGED <<loader, llm, prediction_logs>>

\* GET /analytics/model-performance
GetModelPerformance ==
    /\ call = Idle
    /\ \E q \in QueryOutcomes :
          /\ response' = get_model_performance(prediction_logs, q)
          /\ call' = Request("get_model_performance", "analytics", "none", Nothing,
                             Nothing, FALSE, Nothing, Nothing, q, FALSE)
    /\ UNCHANGED <<loader, llm, prediction_logs>>

\* The queries of GET /analytics/history: limit (Query(100, ge=1, le=1000)),
\* offset (Query(0, ge=0)), and the two filters, given or not
HistoryQueries ==
    { [limit |-> 1, offset |-> 0, model_type |-> Nothing, prediction |-> Nothing],
      [limit |-> 2, offset |-> 1, model_type |-> Nothing, prediction |-> Nothing],
      [limit |-> 2, offset |-> 0, model_type |-> Some("llm_text"),
       prediction |-> Some("")],
      [limit |-> 1, offset |-> 1, model_type |-> Some(""),
       prediction |-> Some("Phishing")] }

\* GET /analytics/history
GetPredictionHistory ==
    /\ call = Idle
    /\ \E query \in HistoryQueries, q \in QueryOutcomes :
          /\ response' = get_prediction_history(prediction_logs, query.limit,
                                                query.offset, query.model_type,
                                                query.prediction, q)
          /\ call' = [op |-> "get_prediction_history", route |-> "analytics",
                      limit |-> query.limit, offset |-> query.offset,
                      model_type |-> query.model_type,
                      prediction |-> query.prediction, db |-> q]
    /\ UNCHANGED <<loader, llm, prediction_logs>>

\* The response is sent and the request's session closed
EndRequest ==
    /\ call # Idle
    /\ call' = Idle
    /\ response' = NoResponse
    /\ UNCHANGED <<loader, llm, prediction_logs>>

Next ==
    \/ PredictUrl
    \/ PredictText
    \/ PredictHybrid
    \/ LlmPredictUrl
    \/ LlmPredictUrlFallback
    \/ LlmPredictText
    \/ LlmPredictTextFallback
    \/ LlmPredictHybrid
    \/ LlmPredictHybridFallback
    \/ ExplainPrediction
    \/ GetAnalyticsSummary
    \/ GetModelPerformance
    \/ GetPredictionHistory
    \/ EndRequest

Spec == Init /\ [][Next]_vars

-----------------------------------------------------------------------------
(* Claims about the request handlers (Spec)                                *)

\* C7: a /predict/url, /predict/text or /predict/hybrid request ends in one
\* of two ways: a success response with the endpoint's kind as model_type,
\* the request's url and text, and the label and confidence predict_*
\* returned; or HTTP 500 with detail "Internal server error".  It is the 500
\* exactly when something raised in the handler: the rollback of a failed
\* log write, or the response model rejecting a hybrid request's missing
\* text.
C7_SuccessOrInternalServerError ==
    (call # Idle /\ call.route = "predict") =>
        LET raised == \/ call.db = "rollback_raises"
                      \/ call.kind = "hybrid" /\ ~call.text.some /\ call.build_raises
        IN  /\ call.kind \in {"url", "text", "hybrid"}
            /\ ~raised =>
                   /\ response.status = 200
                   /\ response.model_type = call.kind
                   /\ response.url = call.url
                   /\ response.text = call.text
                   /\ response.prediction = call.ml.v.label
                   /\ response.confidence = Num(call.ml.v.confidence)
            /\ raised => response = [status |-> 500, detail |-> "Internal server error"]

\* POST /predict/url whose log write failed and whose rollback raised
C7_Witness ==
    /\ call # Idle
    /\ call.op = "predict_url_endpoint"
    /\ call.db = "rollback_raises"
    /\ call.ml.v.label = "Phishing"
    /\ response.status = 500
    /\ response.detail = "Internal server error"

\* C9: an /llm-predict request takes the LLM path when is_available() is
\* true: a success response carries the LLM result.  Otherwise it answers
\* from the ML model alone: the prediction is the ML label upper-cased, the
\* confidence the ML confidence, the explanation "ML-only analysis (LLM
\* unavailable)", risk_factors and recommendations are empty, and the
\* request succeeds; it fails only when the rollback of a failed log write
\* raises.
C9_MlOnlyFallback ==
    (call # Idle /\ call.route = "llm") =>
        /\ call.available =>
               /\ call.result.some
               /\ response.status = 200 =>
                      /\ response.prediction = call.result.v.prediction
                      /\ response.confidence = call.result.v.confidence
                      /\ response.explanation # "ML-only analysis (LLM unavailable)"
        /\ ~call.available =>
               /\ call.ml.some
               /\ call.db # "rollback_raises" =>
                      /\ response.status = 200
                      /\ response.model_type = call.kind
                      /\ response.prediction =
                             CASE call.ml.v.label = "Phishing" -> "PHISHING"
                               [] call.ml.v.label = "Legitimate" -> "LEGITIMATE"
                               [] call.ml.v.label = "Error" -> "ERROR"
                               [] call.ml.v.label = "Model not available"
                                      -> "MODEL NOT AVAILABLE"
                      /\ response.confidence = Num(call.ml.v.confidence)
                      /\ response.explanation = "ML-only analysis (LLM unavailable)"
                      /\ response.risk_factors = <<>>
                      /\ response.recommendations = <<>>
               /\ call.db = "rollback_raises" => response.status = 500

\* POST /llm-predict/hybrid with the LLM down and the hybrid model saying
\* Phishing with confidence 0.8
C9_Witness ==
    /\ call # Idle
    /\ call.op = "predict_hybrid_llm"
    /\ ~call.available
    /\ call.ml = Some([label |-> "Phishing", confidence |-> 800])
    /\ response.status = 200
    /\ response.prediction = "PHISHING"
    /\ response.confidence = Num(800)
    /\ response.llm_model = "ml-only"

\* C10: every row of prediction_logs has prediction "Phishing" or
\* "Legitimate".
C10_LoggedPredictionIsPhishingOrLegitimate ==
    \A i \in DOMAIN prediction_logs :
        prediction_logs[i].prediction \in {"Phishing", "Legitimate"}

\* C11: every row of prediction_logs has model_type "url", "text" or
\* "hybrid"; the per-model counts of /analytics/summary (model_usage) add up
\* to its total_predictions, and the per-model totals of
\* /analytics/model-performance add up to the number of rows.
C11_ModelTypeAccounted ==
    /\ \A i \in DOMAIN prediction_logs :
           prediction_logs[i].model_type \in {"url", "text", "hybrid"}
    /\ (call.op = "get_analytics_summary" /\ response.status = 200) =>
           response.model_usage["url"] + response.model_usage["text"]
               + response.model_usage["hybrid"] = response.total_predictions
    /\ (call.op = "get_model_performance" /\ response.status = 200) =>
           response.performance["url"].total_predictions
               + response.performance["text"].total_predictions
               + response.performance["hybrid"].total_predictions
               = Len(prediction_logs)

\* C14: POST /llm-predict/explain answers HTTP 503 with detail "LLM service
\* unavailable" when is_available() is false, and HTTP 500 with detail
\* "Failed to generate explanation" only when is_available() is true and
\* something else failed.
C14_ExplainUnavailableIs503 ==
    call.op = "explain_prediction" =>
        /\ ~call.available =>
               response = [status |-> 503, detail |-> "LLM service unavailable"]
        /\ response.status = 500 =>
               /\ call.available
               /\ call.chain_raises
               /\ response.detail = "Failed to generate explanation"

\* C20: a /predict or /llm-predict request whose database works has appended
\* exactly one row when it is answered with success, the row carrying the
\* prediction and the confidence of the response, and no row when it is
\* answered with HTTP 500; so that the rows are as many as the successfully
\* answered requests.
C20_OneRowPerAnsweredRequest ==
    (call # Idle /\ call.route \in {"predict", "llm"} /\ call.db = "ok") =>
        /\ response.status \in {200, 500}
        /\ response.status = 200 =>
               /\ Len(prediction_logs) = call.rows_before + 1
               /\ prediction_logs[Len(prediction_logs)].prediction = response.prediction
               /\ prediction_logs[Len(prediction_logs)].confidence = response.confidence
        /\ response.status = 500 => Len(prediction_logs) = call.rows_before

\* C21: with the database answering, GET /analytics/history returns the rows
\* of the log that pass every filter given and not empty (model_type equal,
\* prediction equal), latest first, without the first `offset` of them and
\* at most `limit` of them; and without filters, the pages at the offsets 0,
\* limit, 2 * limit, ... hold every row of the log exactly once.
C21_HistoryPage ==
    (call.op = "get_prediction_history" /\ call.db = "ok") =>
        LET passes(i) ==
                /\ (call.model_type.some /\ call.model_type.v # "") =>
                       prediction_logs[i].model_type = call.model_type.v
                /\ (call.prediction.some /\ call.prediction.v # "") =>
                       prediction_logs[i].prediction = call.prediction.v
            selected == {i \in DOMAIN prediction_logs : passes(i)}
            later(i) == Cardinality({j \in selected : j > i})
            expected == {i \in selected :
                            later(i) >= call.offset /\ later(i) < call.offset + call.limit}
            page(k) == get_prediction_history(prediction_logs, call.limit,
                                              k * call.limit, Nothing, Nothing, "ok")
        IN  /\ response.status = 200
            /\ Len(response.rows) = Cardinality(expected)
            /\ \A n \in DOMAIN response.rows :
                   /\ response.rows[n].id \in expected
                   /\ response.rows[n] = WithIds(prediction_logs)[response.rows[n].id]
            /\ \A n, m \in DOMAIN response.rows :
                   n < m => response.rows[n].id > response.rows[m].id
            /\ \A i \in DOMAIN prediction_logs :
                   Cardinality({<<k, n>> \in (0..Len(prediction_logs)) \X (1..call.limit) :
                                   /\ page(k).status = 200
                                   /\ n \in DOMAIN page(k).rows
                                   /\ page(k).rows[n].id = i}) = 1

\* What predict_url, predict_text or predict_hybrid can return for the input of
\* request c with the loader ld, over everything the classifier and the
\* extractors can do
C22_MlAnswers(ld, c) ==
    CASE c.kind = "url" ->
           { Pair(predict_url(ld, c.url.v, m)) : m \in RequestClassifierOutcomes }
      [] c.kind = "text" ->
           { Pair(predict_text(ld, c.text.v, e, m)) :
                 e \in RequestExtractorOutcomes, m \in RequestClassifierOutcomes }
      [] c.kind = "hybrid" ->
           { Pair(predict_hybrid(ld, c.url.v, c.text, e, m)) :
                 e \in RequestExtractorOutcomes, m \in RequestClassifierOutcomes }

\* The answer of the /predict request c on a log with no row
C22_FirstAnswer(c) ==
    CASE c.kind = "url" -> predict_url_endpoint(<<>>, c.url.v, c.ml.v, c.db).response
      [] c.kind = "text" -> predict_text_endpoint(<<>>, c.text.v, c.ml.v, c.db).response
      [] c.kind = "hybrid" ->
           predict_hybrid_endpoint(<<>>, c.url.v, c.text, c.ml.v, c.db,
                                   c.build_raises).response

\* The inputs of the prediction requests
C22_Inputs ==
    { [kind |-> "url", url |-> Some(UrlShort), text |-> Nothing],
      [kind |-> "text", url |-> Nothing, text |-> Some(TextShort)],
      [kind |-> "hybrid", url |-> Some(UrlShort), text |-> Nothing],
      [kind |-> "hybrid", url |-> Some(UrlShort), text |-> Some(TextShort)] }

\* <<ld, i, a>>: with the loader initialised as ld, predict_* can return a for
\* the input i
C22_InitialAnswers ==
    UNION { { <<ld, i, a>> : a \in C22_MlAnswers(ld, i) } :
                <<ld, i>> \in {AllLoaded, NothingLoaded} \X C22_Inputs }

-----------------------------------------------------------------------------
(* ModelLoader._load_models.  The models directory is the environment: for *)
(* each artifact, whether its file is missing, loads, or exists and makes  *)
(* joblib.load raise.  The artifacts of a group are loaded in the order    *)
(* model, scaler, feature names (and, in the text group, the TF-IDF        *)
(* vectorizer) inside one try block.                                       *)

FileOutcomes == {"missing", "loads", "raises"}

GroupFiles == [model : FileOutcomes, scaler : FileOutcomes, names : FileOutcomes]

\* A group whose three files load, one with no file, and one whose first
\* artifact cannot be unpickled
SimpleGroupFiles ==
    { [model |-> "loads", scaler |-> "loads", names |-> "loads"],
      [model |-> "missing", scaler |-> "missing", names |-> "missing"],
      [model |-> "raises", scaler |-> "loads", names |-> "loads"] }

\* The directories in which at most one group is outside SimpleGroupFiles
LoadEnvs ==
    { env \in [url : GroupFiles, text : GroupFiles, hybrid : GroupFiles,
               tfidf : FileOutcomes] :
          /\ Cardinality({g \in {"url", "text", "hybrid"} :
                              env[g] \notin SimpleGroupFiles}) <= 1
          /\ env.tfidf # "missing" }

\* One try block of _load_models: the artifacts of a group after it, and
\* whether the block was left by an exception (raised), which the except
\* clause logs.  names is what the feature-names file holds.
load_group(g, names) ==
    LET scaler_reached == g.model # "raises"
        names_reached  == scaler_reached /\ g.scaler # "raises"
    IN  [model |-> g.model = "loads",
         scaler |-> IF scaler_reached /\ g.scaler = "loads"
                    THEN Some(AScaler) ELSE Nothing,
         names |-> IF names_reached /\ g.names = "loads"
                   THEN Some(names) ELSE Nothing,
         raised |-> ~names_reached \/ g.names = "raises"]

\* nlp_extractor.tfidf_vectorizer after the text block: load_tfidf_vectorizer
\* is reached when no artifact of the text group raised, and catches what
\* joblib.load raises
load_tfidf(g, tfidf) == ~load_group(g, TextFeatureNames).raised /\ tfidf = "loads"

\* _load_models with an exception of the URL block leaving the method
load_models_Abort(env) ==
    LET u == load_group(env.url, UrlFeatureNames)
        t == load_group(env.text, TextFeatureNames)
        h == load_group(env.hybrid, HybridFeatureNames)
        none == [model |-> FALSE, scaler |-> Nothing, names |-> Nothing]
    IN  IF u.raised
        THEN [loader |-> Loader(u, none, none, FALSE), raises |-> TRUE]
        ELSE [loader |-> Loader(u, t, h, load_tfidf(env.text, env.tfidf)),
              raises |-> FALSE]

\* _load_models on the attributes __init__ set to None: the loader after it,
\* and whether an exception left the method
load_models(env) ==
    LET u == load_group(env.url, UrlFeatureNames)
        t == load_group(env.text, TextFeatureNames)
        h == load_group(env.hybrid, HybridFeatureNames)
    IN  [loader |-> Loader(u, t, h, load_tfidf(env.text, env.tfidf)),
         raises |-> FALSE]

\* ModelLoader.__init__ before it calls _load_models
InitLoad ==
    /\ loader = NothingLoaded
    /\ llm = FALSE
    /\ prediction_logs = <<>>
    /\ response = NoResponse
    /\ call = Idle

\* model_loader = ModelLoader()
LoadModels ==
    /\ call = Idle
    /\ \E env \in LoadEnvs :
       \E r \in {load_models(env)} :
          /\ loader' = r.loader
          /\ call' = [op |-> "_load_models", env |-> env, raises |-> r.raises]
    /\ UNCHANGED <<llm, prediction_logs, response>>

\* predict_url on the loader as loaded
LoadedPredictUrl ==
    /\ call.op = "_load_models"
    /\ ~call.raises
    /\ \E url \in {UrlShort}, m \in RequestClassifierOutcomes :
          call' = [op |-> "predict_url", kind |-> "url", env |-> call.env,
                   raises |-> call.raises, m |-> m,
                   out |-> predict_url(loader, url, m)]
    /\ UNCHANGED <<loader, llm, prediction_logs, response>>

\* predict_text on the loader as loaded
LoadedPredictText ==
    /\ call.op = "_load_models"
    /\ ~call.raises
    /\ \E text \in {TextShort}, e \in RequestExtractorOutcomes,
          m \in RequestClassifierOutcomes :
          call' = [op |-> "predict_text", kind |-> "text", env |-> call.env,
                   raises |-> call.raises, m |-> m,
                   out |-> predict_text(loader, text, e, m)]
    /\ UNCHANGED <<loader, llm, prediction_logs, response>>

\* predict_hybrid on the loader as loaded
LoadedPredictHybrid ==
    /\ call.op = "_load_models"
    /\ ~call.raises
    /\ \E url \in {UrlShort}, text \in {Nothing, Some(TextShort)},
          e \in RequestExtractorOutcomes, m \in RequestClassifierOutcomes :
          call' = [op |-> "predict_hybrid", kind |-> "hybrid", env |-> call.env,
                   raises |-> call.raises, m |-> m,
                   out |-> predict_hybrid(loader, url, text, e, m)]
    /\ UNCHANGED <<loader, llm, prediction_logs, response>>

NextLoad == LoadModels \/ LoadedPredictUrl \/ LoadedPredictText \/ LoadedPredictHybrid

SpecLoad == InitLoad /\ [][NextLoad]_vars

-----------------------------------------------------------------------------
(* Claims about _load_models (SpecLoad)                                    *)

\* The artifacts of group g in the loader
C23_Group(g) ==
    CASE g = "url" -> [model |-> loader.url_model, scaler |-> loader.url_scaler,
                       names |-> loader.url_feature_names]
      [] g = "text" -> [model |-> loader.text_model, scaler |-> loader.text_scaler,
                        names |-> loader.text_feature_names]
      [] g = "hybrid" -> [model |-> loader.hybrid_model, scaler |-> loader.hybrid_scaler,
                          names |-> loader.hybrid_feature_names]

\* C23: _load_models never raises, and what it loads of a group depends on the
\* files of that group alone: the model is loaded exactly when its file
\* loads; the scaler exactly when its file loads and the model's file did not
\* raise; the feature names exactly when their file loads and neither the
\* model's nor the scaler's file raised.  So a missing file leaves the other
\* artifacts of its group as their own files decide, an exception in one
\* group changes nothing in the other two, and the artifacts loaded before
\* an exception stay.  A predict_* call on a loaded model without scaler runs
\* no scaling step and hands the ordered list to the classifier as it is;
\* without feature names it orders the features as they were extracted.
C23_GroupsLoadIndependently ==
    call # Idle =>
        /\ ~call.raises
        /\ \A g \in {"url", "text", "hybrid"} :
               /\ C23_Group(g).model <=> call.env[g].model = "loads"
               /\ C23_Group(g).scaler.some <=>
                      (call.env[g].scaler = "loads" /\ call.env[g].model # "raises")
               /\ C23_Group(g).names.some <=>
                      /\ call.env[g].names = "loads"
                      /\ call.env[g].model # "raises"
                      /\ call.env[g].scaler # "raises"
        /\ call.op \in {"predict_url", "predict_text", "predict_hybrid"} =>
               /\ call.out.label = "Model not available" <=> ~C23_Group(call.kind).model
               /\ (C23_Group(call.kind).model /\ ~C23_Group(call.kind).scaler.some) =>
                      /\ \A i \in DOMAIN call.out.steps : call.out.steps[i] # "scale"
                      /\ call.out.handed => call.out.vector = call.out.ordered
               /\ (C23_Group(call.kind).model /\ ~C23_Group(call.kind).names.some
                     /\ Len(call.out.steps) >= 2) =>
                      call.out.ordered = Values(call.out.raw)

\* The URL scaler's file makes joblib.load raise: the URL model is in service
\* without scaler and feature names and answers "Phishing", while the text
\* and hybrid groups are loaded in full
C23_Witness ==
    /\ call.op = "predict_url"
    /\ call.env.url = [model |-> "loads", scaler |-> "raises", names |-> "loads"]
    /\ loader.url_model
    /\ ~loader.url_scaler.some
    /\ ~loader.url_feature_names.some
    /\ loader.text_model /\ loader.text_scaler.some /\ loader.text_feature_names.some
    /\ loader.hybrid_model /\ loader.hybrid_scaler.some
    /\ call.out.label = "Phishing"
    /\ call.out.ordered = Values(call.out.raw)

=============================================================================
